---------------------------- MODULE Spec2Model ----------------------------
(***************************************************************************)
(* Client-side access layer of openkruise/agents (python): the retry       *)
(* helpers connect_sandbox / run_code_sandbox of test/e2b/utils.py and the  *)
(* call sites of the e2b test-suite, driving one remote sandbox session.   *)
(* The sandbox service itself (session states, answers of the control and  *)
(* data plane) is not python code of this repository: it is modelled from  *)
(* the specification's section 4.3 / 4.4 and marked as such.               *)
(***************************************************************************)
EXTENDS Integers, Sequences, FiniteSets, TLC

VARIABLES
    state,        \* server: state of the session
    timeout,      \* server: the session's timeout attribute (0: none)
    sandbox_id,   \* identifier carried by the client's Sandbox handle (0: none issued)
    pc,           \* client: "idle" | "connect" | "run" | "shell"
    op,           \* the call in progress, or the last one completed
    stAtCall,     \* session state when that call was made
    timeoutArg,   \* connect_sandbox's timeout argument (0: None)
    attempt,      \* loop variable of the retry loop
    calls,        \* invocations of sbx.connect / sbx.run_code / commands.run in this call
    sleeps,       \* time.sleep calls in this call
    slept,        \* seconds slept in this call
    failed,       \* attempts of this call that raised
    pausingSeen,  \* attempts of this call whose error carried the pausing text
    lastErr,      \* error raised by the most recent attempt
    outcome,      \* "none" | "returned" | "raised"
    err,          \* error that reached the caller
    cause,        \* its __cause__ (raise ... from e)
    ret,          \* value returned to the caller
    code,         \* the submitted code (its number of output fragments) or command (its exit code)
    cb,           \* fragments the streaming callback has received in this call
    fleet,        \* server: the other sessions of the service, by identifier
    fop,          \* the last call made on the fleet: its kind, target and outcome
    info,         \* the SandboxInfo that call's get_info returned
    query,        \* list_sandbox's query argument
    pageSize,     \* the page size the service served that list with
    listed,       \* what list_sandbox returned
    atQuery,      \* every session of the service when list_sandbox was called
    sinceOp,      \* seconds passed since that call was made
    paginator,    \* list_sandbox's paginator: whether it has a next page, and its cursor
    wait,         \* the wait_for_sandbox call under way or ended: its position and clock
    env,          \* os.environ of the client process
    patched,      \* what patch_e2b has installed in the SDK
    rop,          \* the last endpoint-resolution call and its arguments
    result,       \* what it returned or raised
    wire,         \* the control-plane requests it sent (their URLs)
    procSt,       \* server: the background process: "none" | "running" | "exited" | "killed"
    total,        \* the output segments the command produces when it runs to its end
    emitted,      \* the segments the process has produced so far, in order
    iter,         \* the client's iteration over the handle: "none" | "iterating" | "done"
    consumed,     \* segments the iteration has yielded so far
    stdout_output,\* the test's list of the stdout segments it was given
    stderr_output,\* the test's list of the stderr segments it was given
    bop,          \* the last call on the command handle and its outcome
    helper,       \* per concurrent caller: the retry helper it runs
    script,       \* server: per caller, how its own session answers its successive calls
    lpc,          \* per caller: "attempt" | "sleeping" | "done"
    lattempt,     \* per caller: the loop variable `attempt`
    lcalls,       \* per caller: invocations of the wrapped operation so far
    lslept,       \* per caller: seconds spent in time.sleep
    lout,         \* per caller: how the helper ended
    ctx_sandboxes,\* SandboxContext.sandboxes: the handles a test registered, in order
    kill_calls,   \* server: the handles whose kill the last cleanup invoked, in order
    cop           \* the last call on the context, its arguments and how it ended

sessionVars == <<state, timeout, sandbox_id, pc, op, stAtCall, timeoutArg, attempt, calls,
                 sleeps, slept, failed, pausingSeen, lastErr, outcome, err, cause, ret, code, cb>>

fleetVars == <<fleet, fop, info, query, pageSize, listed, atQuery, sinceOp, paginator, wait>>

resolverVars == <<env, patched, rop, result, wire>>

bgVars == <<procSt, total, emitted, iter, consumed, stdout_output, stderr_output, bop>>

loopVars == <<helper, script, lpc, lattempt, lcalls, lslept, lout>>

ctxVars == <<ctx_sandboxes, kill_calls, cop>>

vars == <<sessionVars, fleetVars, resolverVars, bgVars, loopVars, ctxVars>>

----------------------------------------------------------------------------
(* Bounds of the model *)

MaxIds == 2
MaxFrags == 2
MaxTimeout == 2

SandboxIds == 1..MaxIds
Timeouts == 1..MaxTimeout
TimeoutArgs == 0..MaxTimeout

----------------------------------------------------------------------------
(* Errors: an exception is its class and its message, str(e).  A message   *)
(* is a sequence of tokens; `x in error_msg` is contiguous containment.     *)

PausingText == <<"sandbox is pausing,", "please wait a moment and try again">>

RECURSIVE StartsWith(_, _)
StartsWith(msg, text) ==
    IF text = <<>> THEN TRUE
    ELSE IF msg = <<>> THEN FALSE
    ELSE Head(msg) = Head(text) /\ StartsWith(Tail(msg), Tail(text))

RECURSIVE Contains(_, _)
Contains(msg, text) ==
    IF StartsWith(msg, text) THEN TRUE
    ELSE IF msg = <<>> THEN FALSE
    ELSE Contains(Tail(msg), text)

Err(kind, msg) == [kind |-> kind, msg |-> msg, exit_code |-> 0, stderr |-> <<>>]

NoErr == Err("None", <<>>)

PausingErr == Err("SandboxException", <<"400:">> \o PausingText)

NotFoundErr == Err("NotFoundException", <<"404:", "sandbox not found">>)

NotRunningErr == Err("SandboxException", <<"409:", "sandbox is not running">>)

TimeoutErr == Err("TimeoutException", <<"request timed out">>)

PartialTextErr == Err("SandboxException", <<"502:", "sandbox is pausing,">>)

TransportFaults == {TimeoutErr, PartialTextErr}

\* error: the error descriptor of an execution (name, value), <<>> for None
Val(tag, id, stdout) ==
    [tag |-> tag, id |-> id, stdout |-> stdout, exit_code |-> 0, error |-> <<>>]

NoVal == Val("None", 0, <<>>)

SandboxVal(id) == Val("Sandbox", id, <<>>)

----------------------------------------------------------------------------
(* The sandbox service *)

States == {"NONE", "RUNNING", "PAUSING", "PAUSED", "TERMINATED"}

Live == {"RUNNING", "PAUSING", "PAUSED"}

\* connect resuming a session that is still being suspended
ServerConnectAnswer_Resume(st) ==
    CASE st \in Live -> [ok |-> TRUE, err |-> NoErr, next |-> "RUNNING"]
      [] OTHER -> [ok |-> FALSE, err |-> NotFoundErr, next |-> st]

\* sbx.connect as the control plane answers it
ServerConnectAnswer(st) ==
    CASE st = "RUNNING" -> [ok |-> TRUE, err |-> NoErr, next |-> "RUNNING"]
      [] st = "PAUSED" -> [ok |-> TRUE, err |-> NoErr, next |-> "RUNNING"]
      [] st = "PAUSING" -> [ok |-> FALSE, err |-> PausingErr, next |-> "PAUSING"]
      [] OTHER -> [ok |-> FALSE, err |-> NotFoundErr, next |-> st]

\* an execute call (run_code, commands.run) as the data plane answers it
ServerExecAnswer(st) ==
    CASE st = "RUNNING" -> [ok |-> TRUE, err |-> NoErr]
      [] st = "PAUSING" -> [ok |-> FALSE, err |-> PausingErr]
      [] st = "PAUSED" -> [ok |-> FALSE, err |-> NotRunningErr]
      [] OTHER -> [ok |-> FALSE, err |-> NotFoundErr]

----------------------------------------------------------------------------
(* The sessions of the service and list_sandbox *)

MaxOthers == 2

OtherIds == (MaxIds + 1)..(MaxIds + MaxOthers)
AllIds == SandboxIds \cup OtherIds
\* page sizes the service may serve a listing with: smaller than, equal to and
\* larger than the number of sessions
PageSizes == {1, 2, 4}

Templates == {"code-interpreter", "base"}

\* metadata: a dict of strings
EmptyMetadata == [k \in {} |-> ""]

\* what the service keeps of one session
Session(st, template, metadata, limit, age) ==
    [state |-> st, template |-> template, metadata |-> metadata, limit |-> limit, age |-> age]

NoSession == Session("NONE", "", EmptyMetadata, 0, 0)

Gone == Session("TERMINATED", "", EmptyMetadata, 0, 0)

\* the session the client's handle stands for, as the service keeps it
MainSession(st, t) ==
    IF st \in Live THEN Session(st, "code-interpreter", [userId |-> "123"], t, 0)
    ELSE IF st = "TERMINATED" THEN Gone
    ELSE NoSession

\* every session of the service, by identifier
Registry(st, t, sid, fl) ==
    [i \in AllIds |-> IF i \in OtherIds THEN fl[i]
                      ELSE IF i = sid THEN MainSession(st, t)
                      ELSE NoSession]

SandboxInfo(id, s) ==
    [sandbox_id |-> id, template_id |-> s.template, state |-> s.state, metadata |-> s.metadata]

NoInfo == SandboxInfo(0, NoSession)

\* the service's listing: the sessions that are not terminated
SessionInfos(reg) ==
    [i \in {j \in DOMAIN reg : reg[j].state \in Live} |-> SandboxInfo(i, reg[i])]

\* SandboxQuery(metadata=..., state=...); an empty state list is no filter
SandboxQuery(metadata, st) == [given |-> TRUE, metadata |-> metadata, state |-> st]

\* query=None
NoQuery == [given |-> FALSE, metadata |-> EmptyMetadata, state |-> {}]

StateQueries == {{"RUNNING"}, {"PAUSED"}, {"RUNNING", "PAUSED"}}

MetadataQueries == {EmptyMetadata, [userId |-> "123"], [userId |-> "123", case |-> "A"]}

\* no query, a metadata query, a state query, and one with both
Queries ==
    {NoQuery}
      \cup {SandboxQuery(m, {}) : m \in MetadataQueries}
      \cup {SandboxQuery(EmptyMetadata, s) : s \in StateQueries}
      \cup {SandboxQuery([userId |-> "123"], {"PAUSED"})}

\* the service's filter: every queried key with an equal value, and the state
\* among the queried ones
Matches(i, q) ==
    /\ \A k \in DOMAIN q.metadata :
          k \in DOMAIN i.metadata /\ i.metadata[k] = q.metadata[k]
    /\ q.state = {} \/ i.state \in q.state

RECURSIVE Ascending(_)
Ascending(S) ==
    IF S = {} THEN <<>>
    ELSE LET m == CHOOSE x \in S : \A y \in S : x <= y
         IN  <<m>> \o Ascending(S \ {m})

\* one page request: at most `limit` matching sessions after `token`, in
\* identifier order, and the token of the next page (0: there is none)
ServerListPage(infos, q, token, limit) ==
    LET ids == Ascending({i \in DOMAIN infos : Matches(infos[i], q) /\ i > token})
        n == IF Len(ids) < limit THEN Len(ids) ELSE limit
    IN  [items |-> [k \in 1..n |-> infos[ids[k]]],
         next_token |-> IF Len(ids) > limit THEN ids[n] ELSE 0]

\* the paginator made without the query
NextItems_NoQuery(infos, q, token, limit) ==
    ServerListPage(infos, NoQuery, token, limit)

\* paginator.next_items() with the paginator's token; has_next is token # 0
NextItems(infos, q, token, limit) ==
    ServerListPage(infos, IF q.given THEN q ELSE NoQuery, token, limit)

\* while paginator.has_next: sandboxes.extend(paginator.next_items()), every
\* request served from the same sessions infos: what the loop yields when the
\* service does not change between its requests
RECURSIVE ListLoop(_, _, _, _, _)
ListLoop(infos, q, limit, sandboxes, token) ==
    IF token = 0 THEN sandboxes
    ELSE LET page == NextItems(infos, q, token, limit)
         IN  ListLoop(infos, q, limit, sandboxes \o page.items, page.next_token)

\* list_sandbox(q) against sessions that do not change while it runs
list_sandbox(infos, q, limit) ==
    LET first == NextItems(infos, q, 0, limit)
    IN  ListLoop(infos, q, limit, first.items, first.next_token)

Ids(sandboxes) == {sandboxes[k].sandbox_id : k \in 1..Len(sandboxes)}

\* wait_for_sandbox: timeout and interval of the cleanup wait, in seconds
wait_timeout == 30

wait_interval == 2

\* the paginator Sandbox.list returns, after a page: has_next is whether the
\* page came with a cursor (0: it did not)
Paginator(token) == [has_next |-> token # 0, token |-> token]

\* wait_for_sandbox: pc is "none" (not called), "head" (at the loop
\* condition, after `left` more seconds of sleep), "listing" (inside the
\* loop's list_sandbox), "remaining" (inside the list_sandbox of the else
\* branch), "returned" (the loop broke) or "raised" (TimeoutError); elapsed is
\* time.time() - start_time
Wait(pc_, elapsed, left) ==
    [pc |-> pc_, elapsed |-> elapsed, left |-> left]

NoWait == Wait("none", 0, 0)

\* the test is not inside a list_sandbox or wait_for_sandbox call
FleetIdle == ~paginator.has_next /\ wait.pc \in {"none", "returned", "raised"}

\* the last call on the fleet
FleetOp(kind, id, ok, template, metadata, t) ==
    [kind |-> kind, id |-> id, ok |-> ok, template |-> template, metadata |-> metadata,
     timeout |-> t]

NoFleetOp == FleetOp("none", 0, TRUE, "", EmptyMetadata, 0)

InitFleet ==
    /\ fleet = [i \in OtherIds |-> NoSession]
    /\ fop = NoFleetOp
    /\ info = NoInfo
    /\ query = NoQuery
    /\ pageSize = 1
    /\ listed = <<>>
    /\ atQuery = <<>>
    /\ sinceOp = 0
    /\ paginator = Paginator(0)
    /\ wait = NoWait

----------------------------------------------------------------------------
(* Endpoint resolution: kruise_agents/e2b.py and kruise_agents/patch_e2b.py *)

Domains == {"localhost", "e2b.example.com"}

Ports == {49999, 49983, 8080}

\* os.environ: a dict of strings; E2B_DOMAIN may be missing
Envs ==
    {[E2B_API_KEY |-> "key"]}
      \cup {[E2B_API_KEY |-> "key", E2B_DOMAIN |-> d] : d \in Domains}
      \cup {[E2B_API_KEY |-> "key", E2B_DOMAIN |-> d, E2B_API_URL |-> "https://api.e2b.dev"] :
              d \in Domains}

\* str(KeyError(k)) is the repr of the key
KeyError(k) == Err("KeyError", <<"'" \o k \o "'">>)

Returned(v) == [ok |-> TRUE, val |-> v, err |-> NoErr, debug |-> FALSE]

Raised(e) == [ok |-> FALSE, val |-> "", err |-> e, debug |-> FALSE]

NoResult == Returned("")

\* os.environ[k]
Environ(e, k) == IF k \in DOMAIN e THEN Returned(e[k]) ELSE Raised(KeyError(k))

\* os.environ[k] = v
SetEnviron(e, k, v) == [n \in DOMAIN e \cup {k} |-> IF n = k THEN v ELSE e[n]]

\* os.environ.get with a default instead of os.environ[...]
get_api_url_Default(e, https) ==
    Returned((IF https THEN "https" ELSE "http") \o "://"
               \o (IF "E2B_DOMAIN" \in DOMAIN e THEN e["E2B_DOMAIN"] ELSE "e2b.dev")
               \o "/kruise/api")

\* the scheme chosen the wrong way round
get_api_url_Flipped(e, https) ==
    LET d == Environ(e, "E2B_DOMAIN")
    IN  IF d.ok
        THEN Returned((IF https THEN "http" ELSE "https") \o "://" \o d.val \o "/kruise/api")
        ELSE d

\* kruise_agents.e2b.get_api_url
get_api_url(e, https) ==
    LET d == Environ(e, "E2B_DOMAIN")
    IN  IF d.ok
        THEN Returned((IF https THEN "https" ELSE "http") \o "://" \o d.val \o "/kruise/api")
        ELSE d

\* kruise_agents.patch_e2b.__get_api_url
patch_get_api_url(e, https) ==
    LET d == Environ(e, "E2B_DOMAIN")
    IN  IF d.ok
        THEN Returned((IF https THEN "https" ELSE "http") \o "://" \o d.val \o "/kruise/api")
        ELSE d

\* kruise_agents.e2b.Sandbox.get_host
Sandbox_get_host(sandbox_domain, id, port) ==
    "sandbox." \o sandbox_domain \o "/kruise/" \o id \o "/" \o ToString(port)

\* kruise_agents.patch_e2b.__sandbox_get_host
patch_sandbox_get_host(sandbox_domain, id, port) ==
    sandbox_domain \o "/kruise/" \o id \o "/" \o ToString(port)

\* kruise_agents.patch_e2b.__connection_config_get_host
patch_connection_config_get_host(id, sandbox_domain, port) ==
    sandbox_domain \o "/kruise/" \o id \o "/" \o ToString(port)

\* the SDK's own get_host
sdk_get_host(sandbox_domain, id, port) ==
    ToString(port) \o "-" \o id \o "." \o sandbox_domain

Unpatched == [get_host |-> FALSE, http_urls |-> FALSE]

NoCall ==
    [name |-> "none", cls |-> "", https |-> FALSE, domain |-> "", id |-> "", port |-> 0,
     debug |-> FALSE]

\* a call with its arguments; debug: connection_config.debug of the handle the
\* SDK hands to the subclass (self for an instance connect, the new handle
\* built from opts otherwise)
Call(name, cls, https, domain, id, port, debug) ==
    [name |-> name, cls |-> cls, https |-> https, domain |-> domain, id |-> id, port |-> port,
     debug |-> debug]

\* the client process with environment e and p installed in the SDK, before
\* any endpoint call
InitResolver(e, p) ==
    /\ env = e
    /\ patched = p
    /\ rop = NoCall
    /\ result = NoResult
    /\ wire = <<>>

----------------------------------------------------------------------------
(* Background commands: commands.run(..., background=True) and its handle *)

MaxSegs == 2

Streams == {"stdout", "stderr"}

\* an output segment of the process: the stream it was written to and its
\* position in the process's output
Segment(stream, n) == [stream |-> stream, n |-> n]

\* a call on the handle: whether it raised, what it returned, and the state
\* of the process when it was made
BgOp(name, raised, val, at) == [name |-> name, raised |-> raised, ret |-> val, at |-> at]

NoBgOp == BgOp("none", FALSE, "", "none")

InitBackground ==
    /\ procSt = "none"
    /\ total = 0
    /\ emitted = <<>>
    /\ iter = "none"
    /\ consumed = 0
    /\ stdout_output = <<>>
    /\ stderr_output = <<>>
    /\ bop = NoBgOp

----------------------------------------------------------------------------
(* Two callers running the retry helpers at the same time, each on its own
   session *)

MaxPausing == 2

\* the two concurrent callers; caller i works on session i
Loops == 1..2

\* a session of its own: it answers its first `left` calls while it is being
\* suspended and every later one in state `next` (a suspension that never
\* completes is written with left = 0)
Scripts ==
    {s \in [left : 0..MaxPausing, next : {"RUNNING", "PAUSED", "PAUSING", "TERMINATED"}] :
        s.next = "PAUSING" => s.left = 0}

SessionAt(s, k) == IF k < s.left THEN "PAUSING" ELSE s.next

NoOutcome == [outcome |-> "none", err |-> NoErr, cause |-> NoErr, ret |-> NoVal]

InitLoops(h, s) ==
    /\ helper = h
    /\ script = s
    /\ lpc = [i \in Loops |-> "attempt"]
    /\ lattempt = [i \in Loops |-> 0]
    /\ lcalls = [i \in Loops |-> 0]
    /\ lslept = [i \in Loops |-> 0]
    /\ lout = [i \in Loops |-> NoOutcome]

NoLoops ==
    InitLoops([i \in Loops |-> "connect_sandbox"],
              [i \in Loops |-> [left |-> 0, next |-> "RUNNING"]])

----------------------------------------------------------------------------
(* The sandbox context of a test *)

MaxRegistered == 2

\* identifiers as the service may hand them out, written as their pieces:
\* "default--a", "a", "default--a--b"
Identifiers == {<<"default", "--", "a">>, <<"a">>, <<"default", "--", "a", "--", "b">>}

\* str.split(sep): the pieces of s between the separators, cur being the
\* piece under way and parts the pieces already closed
RECURSIVE split(_, _, _, _)
split(s, sep, cur, parts) ==
    IF s = <<>>
    THEN Append(parts, cur)
    ELSE IF Head(s) = sep
    THEN split(Tail(s), sep, <<>>, Append(parts, cur))
    ELSE split(Tail(s), sep, Append(cur, Head(s)), parts)

\* SandboxContext() of a test that has registered nothing yet
InitContext ==
    /\ ctx_sandboxes = <<>>
    /\ kill_calls = <<>>
    /\ cop = [name |-> "none", test_failed |-> FALSE, escaped |-> FALSE, registry |-> <<>>,
             caught |-> <<>>]

----------------------------------------------------------------------------
InitSession ==
    /\ state = "NONE"
    /\ timeout = 0
    /\ sandbox_id = 0
    /\ pc = "idle"
    /\ op = "none"
    /\ stAtCall = "NONE"
    /\ timeoutArg = 0
    /\ attempt = 0
    /\ calls = 0
    /\ sleeps = 0
    /\ slept = 0
    /\ failed = 0
    /\ pausingSeen = 0
    /\ lastErr = NoErr
    /\ outcome = "none"
    /\ err = NoErr
    /\ cause = NoErr
    /\ ret = NoVal
    /\ code = 0
    /\ cb = <<>>

\* a test of src/test/e2b starts: conftest has run patch_e2b(https=False) in a
\* process with E2B_DOMAIN configured, nothing else has been called
Init ==
    /\ InitSession
    /\ InitFleet
    /\ InitBackground
    /\ NoLoops
    /\ InitContext
    /\ LET e == [E2B_API_KEY |-> "key", E2B_DOMAIN |-> "localhost"]
       IN  InitResolver(SetEnviron(e, "E2B_API_URL", patch_get_api_url(e, FALSE).val),
                        [get_host |-> TRUE, http_urls |-> TRUE])

\* a call starts: the per-call bookkeeping is reset
BeginCall(name) ==
    /\ op' = name
    /\ stAtCall' = state
    /\ attempt' = 0
    /\ calls' = 0
    /\ sleeps' = 0
    /\ slept' = 0
    /\ failed' = 0
    /\ pausingSeen' = 0
    /\ lastErr' = NoErr
    /\ outcome' = "none"
    /\ err' = NoErr
    /\ cause' = NoErr
    /\ ret' = NoVal
    /\ cb' = <<>>

\* a call made of one request: it returns v or raises e
OneShot(name, e, v) ==
    /\ pc = "idle"
    /\ FleetIdle
    /\ op' = name
    /\ stAtCall' = state
    /\ attempt' = 0
    /\ calls' = 1
    /\ sleeps' = 0
    /\ slept' = 0
    /\ failed' = IF e = NoErr THEN 0 ELSE 1
    /\ pausingSeen' = 0
    /\ lastErr' = e
    /\ outcome' = IF e = NoErr THEN "returned" ELSE "raised"
    /\ err' = e
    /\ cause' = NoErr
    /\ ret' = v
    /\ cb' = <<>>
    /\ UNCHANGED <<pc, timeoutArg, code>>

\* Sandbox.create(template, timeout, metadata)
Create ==
    /\ state = "NONE"
    /\ \E id \in SandboxIds, t \in Timeouts :
          /\ sandbox_id' = id
          /\ timeout' = t
          /\ OneShot("create", NoErr, SandboxVal(id))
    /\ state' = "RUNNING"
    /\ UNCHANGED <<fleetVars, resolverVars, bgVars, loopVars, ctxVars>>

\* sbx.beta_pause(): the request is accepted, the transition completes later
Pause ==
    /\ state # "NONE"
    /\ IF state \in Live
       THEN OneShot("pause", NoErr, NoVal)
       ELSE OneShot("pause", NotFoundErr, NoVal)
    /\ state' = IF state = "RUNNING" THEN "PAUSING" ELSE state
    /\ UNCHANGED <<timeout, sandbox_id>>
    /\ UNCHANGED <<fleetVars, resolverVars, bgVars, loopVars, ctxVars>>

\* the server finishes suspending the session
CompletePause ==
    /\ state = "PAUSING"
    /\ state' = "PAUSED"
    /\ UNCHANGED <<timeout, sandbox_id, pc, op, stAtCall, timeoutArg, attempt, calls,
                   sleeps, slept, failed, pausingSeen, lastErr, outcome, err, cause, ret, code, cb>>
    /\ UNCHANGED <<fleetVars, resolverVars, bgVars, loopVars, ctxVars>>

\* the session's idle timeout expires and the server reaps it
TimeoutExpire ==
    /\ state = "RUNNING"
    /\ state' = "TERMINATED"
    /\ UNCHANGED <<timeout, sandbox_id, pc, op, stAtCall, timeoutArg, attempt, calls,
                   sleeps, slept, failed, pausingSeen, lastErr, outcome, err, cause, ret, code, cb>>
    /\ UNCHANGED <<fleetVars, resolverVars, bgVars, loopVars, ctxVars>>

\* kill answering not-found for a session that is already gone
Kill_Strict ==
    /\ state # "NONE"
    /\ IF state \in Live
       THEN OneShot("kill", NoErr, NoVal)
       ELSE OneShot("kill", NotFoundErr, NoVal)
    /\ state' = "TERMINATED"
    /\ UNCHANGED <<timeout, sandbox_id>>
    /\ UNCHANGED <<fleetVars, resolverVars, bgVars, loopVars, ctxVars>>

\* sbx.kill()
Kill ==
    /\ state # "NONE"
    /\ OneShot("kill", NoErr, NoVal)
    /\ state' = "TERMINATED"
    /\ UNCHANGED <<timeout, sandbox_id>>
    /\ UNCHANGED <<fleetVars, resolverVars, bgVars, loopVars, ctxVars>>

\* sbx.get_info()
GetInfo ==
    /\ state # "NONE"
    /\ IF state \in Live
       THEN OneShot("get_info", NoErr, Val("SandboxInfo", sandbox_id, <<>>))
       ELSE OneShot("get_info", NotFoundErr, NoVal)
    /\ UNCHANGED <<state, timeout, sandbox_id>>
    /\ UNCHANGED <<fleetVars, resolverVars, bgVars, loopVars, ctxVars>>

\* sbx.set_timeout(t)
SetTimeout ==
    /\ state # "NONE"
    /\ \E t \in Timeouts :
          IF state \in Live
          THEN OneShot("set_timeout", NoErr, NoVal) /\ timeout' = t
          ELSE OneShot("set_timeout", NotFoundErr, NoVal) /\ timeout' = timeout
    /\ UNCHANGED <<state, sandbox_id>>
    /\ UNCHANGED <<fleetVars, resolverVars, bgVars, loopVars, ctxVars>>

\* sbx.is_running()
IsRunning ==
    /\ state # "NONE"
    /\ OneShot("is_running", NoErr,
               Val(IF state = "RUNNING" THEN "True" ELSE "False", 0, <<>>))
    /\ UNCHANGED <<state, timeout, sandbox_id>>
    /\ UNCHANGED <<fleetVars, resolverVars, bgVars, loopVars, ctxVars>>

----------------------------------------------------------------------------
(* connect_sandbox *)

max_retries_connect_plus == 30 + 1

max_retries_connect == 30

retry_interval_connect == 2

\* the test written as an equality instead of `in`
IsPausingError_Exact(e) == e.msg = PausingText

IsPausingError(e) == Contains(e.msg, PausingText)

ExhaustedErr ==
    Err("Exception",
        <<"Sandbox still pausing after", ToString(max_retries_connect), "retries">>)

\* the except clause with a bare `raise` on exhaustion
ConnectOnError_NoWrap(e, a) ==
    IF IsPausingError(e) /\ a < max_retries_connect - 1
    THEN [do |-> "retry", err |-> NoErr, cause |-> NoErr]
    ELSE [do |-> "raise", err |-> e, cause |-> NoErr]

\* the except clause retrying whatever was raised, as run_code_sandbox does
ConnectOnError_RetryAll(e, a) ==
    IF a < max_retries_connect - 1
    THEN [do |-> "retry", err |-> NoErr, cause |-> NoErr]
    ELSE [do |-> "raise", err |-> ExhaustedErr, cause |-> e]

\* the except clause wrapping every error it lets go
ConnectOnError_WrapAll(e, a) ==
    IF IsPausingError(e) /\ a < max_retries_connect - 1
    THEN [do |-> "retry", err |-> NoErr, cause |-> NoErr]
    ELSE [do |-> "raise", err |-> ExhaustedErr, cause |-> e]

\* the except clause adding the attempt count to a terminal error that comes
\* after retries
ConnectOnError_Annotate(e, a) ==
    IF IsPausingError(e)
    THEN IF a < max_retries_connect - 1
         THEN [do |-> "retry", err |-> NoErr, cause |-> NoErr]
         ELSE [do |-> "raise", err |-> ExhaustedErr, cause |-> e]
    ELSE [do |-> "raise",
          err |-> IF a = 0 THEN e
                  ELSE [e EXCEPT !.msg = e.msg \o <<"after", ToString(a + 1), "attempts">>],
          cause |-> NoErr]

\* the except clause: what the handler does with the error e of attempt a
ConnectOnError(e, a) ==
    IF IsPausingError(e)
    THEN IF a < max_retries_connect - 1
         THEN [do |-> "retry", err |-> NoErr, cause |-> NoErr]
         ELSE [do |-> "raise", err |-> ExhaustedErr, cause |-> e]
    ELSE [do |-> "raise", err |-> e, cause |-> NoErr]

\* connect_sandbox(sbx, timeout) is called
ConnectCall ==
    /\ pc = "idle"
    /\ FleetIdle
    /\ pc' = "connect"
    /\ \E t \in TimeoutArgs : timeoutArg' = t
    /\ BeginCall("connect_sandbox")
    /\ UNCHANGED <<state, timeout, sandbox_id, code>>
    /\ UNCHANGED <<fleetVars, resolverVars, bgVars, loopVars, ctxVars>>

\* the loop ran out without returning or raising: return None
FallThrough ==
    /\ pc' = "idle"
    /\ outcome' = "returned"
    /\ ret' = NoVal
    /\ UNCHANGED <<state, timeout, sandbox_id, op, stAtCall, timeoutArg, attempt, calls,
                   sleeps, slept, failed, pausingSeen, lastErr, err, cause, code, cb>>

\* the attempt's value dropped: the helper returns None
ReturnValue_Dropped(v) ==
    /\ pc' = "idle"
    /\ outcome' = "returned"
    /\ ret' = NoVal
    /\ UNCHANGED <<attempt, sleeps, slept, failed, pausingSeen, lastErr, err, cause>>

\* the attempt returned v: the helper returns it
ReturnValue(v) ==
    /\ pc' = "idle"
    /\ outcome' = "returned"
    /\ ret' = v
    /\ UNCHANGED <<attempt, sleeps, slept, failed, pausingSeen, lastErr, err, cause>>

\* the except clause raising the error kept from the attempt before
HandleError_Stale(e, d, interval) ==
    /\ lastErr' = e
    /\ failed' = failed + 1
    /\ pausingSeen' = IF Contains(e.msg, PausingText) THEN pausingSeen + 1 ELSE pausingSeen
    /\ IF d.do = "retry"
       THEN /\ sleeps' = sleeps + 1
            /\ slept' = slept + interval
            /\ attempt' = attempt + 1
            /\ UNCHANGED <<pc, outcome, err, cause, ret>>
       ELSE /\ pc' = "idle"
            /\ outcome' = "raised"
            /\ err' = IF d.err = e /\ failed > 0 THEN lastErr ELSE d.err
            /\ cause' = IF d.cause = e /\ failed > 0 THEN lastErr ELSE d.cause
            /\ UNCHANGED <<sleeps, slept, attempt, ret>>

\* the except clause sleeping before it decides, also when it raises
HandleError_SleepAlways(e, d, interval) ==
    /\ lastErr' = e
    /\ failed' = failed + 1
    /\ pausingSeen' = IF Contains(e.msg, PausingText) THEN pausingSeen + 1 ELSE pausingSeen
    /\ sleeps' = sleeps + 1
    /\ slept' = slept + interval
    /\ IF d.do = "retry"
       THEN /\ attempt' = attempt + 1
            /\ UNCHANGED <<pc, outcome, err, cause, ret>>
       ELSE /\ pc' = "idle"
            /\ outcome' = "raised"
            /\ err' = d.err
            /\ cause' = d.cause
            /\ UNCHANGED <<attempt, ret>>

\* the attempt raised e and the except clause decided d; a retry sleeps
\* `interval` seconds first
HandleError(e, d, interval) ==
    /\ lastErr' = e
    /\ failed' = failed + 1
    /\ pausingSeen' = IF Contains(e.msg, PausingText) THEN pausingSeen + 1 ELSE pausingSeen
    /\ IF d.do = "retry"
       THEN /\ sleeps' = sleeps + 1
            /\ slept' = slept + interval
            /\ attempt' = attempt + 1
            /\ UNCHANGED <<pc, outcome, err, cause, ret>>
       ELSE /\ pc' = "idle"
            /\ outcome' = "raised"
            /\ err' = d.err
            /\ cause' = d.cause
            /\ UNCHANGED <<sleeps, slept, attempt, ret>>

\* the loop handing back a session under another identifier than sbx's
ConnectIteration_OtherSession(ans) ==
    IF attempt >= max_retries_connect
    THEN FallThrough
    ELSE /\ calls' = calls + 1
         /\ state' = ans.next
         /\ timeout' = IF ans.ok /\ timeoutArg # 0 THEN timeoutArg ELSE timeout
         /\ sandbox_id' = IF ans.ok THEN (sandbox_id % MaxIds) + 1 ELSE sandbox_id
         /\ IF ans.ok
            THEN ReturnValue(SandboxVal(sandbox_id'))
            ELSE HandleError(ans.err, ConnectOnError(ans.err, attempt), retry_interval_connect)
         /\ UNCHANGED <<op, stAtCall, timeoutArg, code, cb>>

\* the loop swallowing the attempt's error and handing sbx back
ConnectIteration_Swallow(ans) ==
    IF attempt >= max_retries_connect
    THEN FallThrough
    ELSE /\ calls' = calls + 1
         /\ state' = ans.next
         /\ timeout' = IF ans.ok /\ timeoutArg # 0 THEN timeoutArg ELSE timeout
         /\ ReturnValue(SandboxVal(sandbox_id))
         /\ UNCHANGED <<sandbox_id, op, stAtCall, timeoutArg, code, cb>>

\* one iteration of connect_sandbox's loop; ans is what sbx.connect did
ConnectIteration(ans) ==
    IF attempt >= max_retries_connect
    THEN FallThrough
    ELSE /\ calls' = calls + 1
         /\ state' = ans.next
         /\ timeout' = IF ans.ok /\ timeoutArg # 0 THEN timeoutArg ELSE timeout
         /\ IF ans.ok
            THEN ReturnValue(SandboxVal(sandbox_id))
            ELSE HandleError(ans.err, ConnectOnError(ans.err, attempt), retry_interval_connect)
         /\ UNCHANGED <<sandbox_id, op, stAtCall, timeoutArg, code, cb>>

\* sbx.connect reaches the control plane
ConnectAttempt ==
    /\ pc = "connect"
    /\ ConnectIteration(ServerConnectAnswer(state))
    /\ UNCHANGED <<fleetVars, resolverVars, bgVars, loopVars, ctxVars>>

\* sbx.connect fails in transport
ConnectAttemptFault ==
    /\ pc = "connect"
    /\ \E e \in TransportFaults :
          ConnectIteration([ok |-> FALSE, err |-> e, next |-> state])
    /\ UNCHANGED <<fleetVars, resolverVars, bgVars, loopVars, ctxVars>>

----------------------------------------------------------------------------
(* run_code_sandbox *)

max_retries_run == 5

retry_interval_run == 5

\* the ordered output fragments of a program that prints k of them
Fragments(k) == [i \in 1..k |-> i]

Prefix(s, j) == SubSeq(s, 1, j)

ExecutionVal(out) == Val("Execution", 0, out)

\* a program that raises when it runs, next to those that print k fragments
RaisingProgram == -1

Programs == (0..MaxFrags) \cup {RaisingProgram}

\* the error descriptor of the execution of program k
ExecutionError(k) ==
    IF k = RaisingProgram THEN <<"NameError", "name 'x' is not defined">> ELSE <<>>

\* what sbx.run_code returns for program k on a running session: the code
\* ran, and failed or not
Execution(k) == [ExecutionVal(Fragments(k)) EXCEPT !.error = ExecutionError(k)]

\* the except clause of run_code_sandbox: any exception, at attempt a
RunOnError(e, a) ==
    IF a < max_retries_run - 1
    THEN [do |-> "retry", err |-> NoErr, cause |-> NoErr]
    ELSE [do |-> "raise", err |-> e, cause |-> NoErr]

\* run_code_sandbox(sbx, code, on_stdout=...) is called
RunCall ==
    /\ pc = "idle"
    /\ FleetIdle
    /\ state # "NONE"
    /\ pc' = "run"
    /\ \E k \in Programs : code' = k
    /\ BeginCall("run_code_sandbox")
    /\ UNCHANGED <<state, timeout, sandbox_id, timeoutArg>>
    /\ UNCHANGED <<fleetVars, resolverVars, bgVars, loopVars, ctxVars>>

\* the loop treating a returned execution whose error is set as a failed
\* attempt
RunIteration_RetryOnError(ans, delivered) ==
    IF attempt >= max_retries_run
    THEN FallThrough
    ELSE /\ calls' = calls + 1
         /\ cb' = cb \o delivered
         /\ IF ans.ok /\ ExecutionError(code) = <<>>
            THEN ReturnValue(Execution(code))
            ELSE LET e == IF ans.ok THEN Err("Exception", ExecutionError(code)) ELSE ans.err
                 IN  HandleError(e, RunOnError(e, attempt), retry_interval_run)
         /\ UNCHANGED <<state, timeout, sandbox_id, op, stAtCall, timeoutArg, code>>

\* one iteration of run_code_sandbox's loop: sbx.run_code handed `delivered`
\* to the callback passed in kwargs and then returned or raised (ans)
RunIteration(ans, delivered) ==
    IF attempt >= max_retries_run
    THEN FallThrough
    ELSE /\ calls' = calls + 1
         /\ cb' = cb \o delivered
         /\ IF ans.ok
            THEN ReturnValue(Execution(code))
            ELSE HandleError(ans.err, RunOnError(ans.err, attempt), retry_interval_run)
         /\ UNCHANGED <<state, timeout, sandbox_id, op, stAtCall, timeoutArg, code>>

\* sbx.run_code reaches the session and gets its complete answer
RunAttempt ==
    /\ pc = "run"
    /\ LET ans == ServerExecAnswer(state)
       IN RunIteration(ans, IF ans.ok THEN Fragments(code) ELSE <<>>)
    /\ UNCHANGED <<fleetVars, resolverVars, bgVars, loopVars, ctxVars>>

\* sbx.run_code fails in transport, after j fragments of a running session's
\* output were already streamed to the callback
RunAttemptFault ==
    /\ pc = "run"
    /\ \E e \in TransportFaults, j \in 0..(IF state = "RUNNING" THEN Len(Fragments(code)) ELSE 0) :
          RunIteration([ok |-> FALSE, err |-> e], Prefix(Fragments(code), j))
    /\ UNCHANGED <<fleetVars, resolverVars, bgVars, loopVars, ctxVars>>

----------------------------------------------------------------------------
(* execute_shell_command / sbx.commands.run *)

ExitCodes == {0, 1, 127}

Stderr(c) == IF c = 0 THEN <<>> ELSE <<"stderr of exit", ToString(c)>>

CommandExitErr(c) ==
    [kind |-> "CommandExitException",
     msg |-> <<"Command exited with code", ToString(c)>>,
     exit_code |-> c,
     stderr |-> Stderr(c)]

ResultErr == Err("Exception", <<"result.error">>)

\* sbx.commands.run(command) for a command that exits with c, as the SDK
\* reports it; errText: the returned result's error field is set
CommandsRunAnswer(st, c, errText) ==
    LET a == ServerExecAnswer(st)
    IN  IF ~a.ok THEN [ok |-> FALSE, err |-> a.err, resultError |-> FALSE]
        ELSE IF c # 0
        THEN [ok |-> FALSE, err |-> CommandExitErr(c), resultError |-> FALSE]
        ELSE [ok |-> TRUE, err |-> NoErr, resultError |-> errText]

\* the command routed through run_code_sandbox's retry policy
ShellOnError_Retry(e, a) == RunOnError(e, a)

\* the call site has no except clause: whatever is raised propagates
ShellOnError(e, a) == [do |-> "raise", err |-> e, cause |-> NoErr]

\* execute_shell_command(s, command) is called
ShellCall ==
    /\ pc = "idle"
    /\ FleetIdle
    /\ state # "NONE"
    /\ pc' = "shell"
    /\ \E c \in ExitCodes : code' = c
    /\ BeginCall("execute_shell_command")
    /\ UNCHANGED <<state, timeout, sandbox_id, timeoutArg>>
    /\ UNCHANGED <<fleetVars, resolverVars, bgVars, loopVars, ctxVars>>

\* raise Exception(result.error): the helper itself raises, no attempt did
RaiseResultError ==
    /\ pc' = "idle"
    /\ outcome' = "raised"
    /\ err' = ResultErr
    /\ UNCHANGED <<attempt, sleeps, slept, failed, pausingSeen, lastErr, cause, ret>>

\* `assert actual == expect`: the helper itself raises AssertionError
RaiseAssertion ==
    /\ pc' = "idle"
    /\ outcome' = "raised"
    /\ err' = Err("AssertionError", <<>>)
    /\ UNCHANGED <<attempt, sleeps, slept, failed, pausingSeen, lastErr, cause, ret>>

\* the expect_stdout / expect_stderr argument: None (given FALSE) or a list
Expectations(text) ==
    {[given |-> FALSE, lines |-> <<>>], [given |-> TRUE, lines |-> <<>>],
     [given |-> TRUE, lines |-> <<text>>]}

\* `if expect is not None: actual = [out] if out else []; assert actual == expect`
ExpectationMet(expect, out) ==
    ~expect.given \/ (IF out # "" THEN <<out>> ELSE <<>>) = expect.lines

\* the body of execute_shell_command; ans is what s.commands.run did, out
\* and errOut the stdout and stderr of the result it returned
ShellIteration(ans, out, errOut, expect_stdout, expect_stderr) ==
    /\ calls' = calls + 1
    /\ IF ans.ok
       THEN IF ans.resultError
            THEN RaiseResultError
            ELSE IF ~ExpectationMet(expect_stdout, out)
                    \/ ~ExpectationMet(expect_stderr, errOut)
            THEN RaiseAssertion
            ELSE ReturnValue([Val("CommandResult", 0, <<>>) EXCEPT !.exit_code = code])
       ELSE HandleError(ans.err, ShellOnError(ans.err, attempt), 0)
    /\ UNCHANGED <<state, timeout, sandbox_id, op, stAtCall, timeoutArg, code, cb>>

\* s.commands.run(command) is invoked and answers; the result's output is
\* compared with what the caller passed as expect_stdout and expect_stderr
ShellAttempt ==
    /\ pc = "shell"
    /\ \E errText \in BOOLEAN, out \in {"", "hello world\n", "other\n"},
          errOut \in {"", "warn"},
          expect_stdout \in Expectations("hello world\n"),
          expect_stderr \in Expectations("warn") :
          ShellIteration(CommandsRunAnswer(state, code, errText), out, errOut,
                         expect_stdout, expect_stderr)
    /\ UNCHANGED <<fleetVars, resolverVars, bgVars, loopVars, ctxVars>>

\* s.commands.run(command) fails in transport
ShellAttemptFault ==
    /\ pc = "shell"
    /\ \E e \in TransportFaults :
          ShellIteration([ok |-> FALSE, err |-> e, resultError |-> FALSE], "", "",
                         [given |-> FALSE, lines |-> <<>>],
                         [given |-> FALSE, lines |-> <<>>])
    /\ UNCHANGED <<fleetVars, resolverVars, bgVars, loopVars, ctxVars>>

----------------------------------------------------------------------------
(* Calls on the other sessions of the service *)

\* create forwarding no metadata to the SDK
SuperCreateArgs_NoMetadata(template, t, metadata) ==
    [template |-> template, timeout |-> t, metadata |-> EmptyMetadata]

\* kruise_agents.e2b.Sandbox.create: what it forwards to the SDK's create
SuperCreateArgs(template, t, metadata) ==
    [template |-> template, timeout |-> t, metadata |-> metadata]

\* GET /sandboxes/{id} for a session that is not terminated
ServerGetInfo(id, s) == SandboxInfo(id, s)

\* set_timeout that leaves the creation timeout running
ServerSetTimeout_Keep(s, t) == s

\* the timeout of a session replaced: t seconds from now
ServerSetTimeout(s, t) == [s EXCEPT !.limit = t, !.age = 0]

FleetFrame == UNCHANGED <<sessionVars, resolverVars, bgVars, loopVars, ctxVars>>

\* a call starts: what the previous call returned is dropped
NoListing ==
    /\ query' = NoQuery
    /\ pageSize' = 1
    /\ listed' = <<>>
    /\ atQuery' = <<>>
    /\ paginator' = Paginator(0)
    /\ wait' = NoWait

\* Sandbox.create(template=..., timeout=..., metadata=...) allocating session i
FleetCreate(i, template, t, metadata) ==
    /\ pc = "idle"
    /\ FleetIdle
    /\ fleet[i].state = "NONE"
    /\ LET a == SuperCreateArgs(template, t, metadata)
       IN  fleet' = [fleet EXCEPT ![i] = Session("RUNNING", a.template, a.metadata,
                                                  a.timeout, 0)]
    /\ fop' = FleetOp("create", i, TRUE, template, metadata, t)
    /\ sinceOp' = 0
    /\ info' = NoInfo
    /\ NoListing
    /\ FleetFrame

\* sandbox.get_info()
FleetGetInfo(i) ==
    /\ pc = "idle"
    /\ FleetIdle
    /\ fleet[i].state # "NONE"
    /\ fop' = FleetOp("get_info", i, fleet[i].state \in Live, "", EmptyMetadata, 0)
    /\ sinceOp' = 0
    /\ info' = IF fleet[i].state \in Live THEN ServerGetInfo(i, fleet[i]) ELSE NoInfo
    /\ NoListing
    /\ UNCHANGED fleet
    /\ FleetFrame

\* sandbox.kill()
FleetKill(i) ==
    /\ pc = "idle"
    /\ FleetIdle
    /\ fleet[i].state # "NONE"
    /\ fop' = FleetOp("kill", i, TRUE, "", EmptyMetadata, 0)
    /\ sinceOp' = 0
    /\ fleet' = [fleet EXCEPT ![i] = Gone]
    /\ info' = NoInfo
    /\ NoListing
    /\ FleetFrame

\* sandbox.set_timeout(t)
FleetSetTimeout(i, t) ==
    /\ pc = "idle"
    /\ FleetIdle
    /\ fleet[i].state # "NONE"
    /\ fop' = FleetOp("set_timeout", i, fleet[i].state \in Live, "", EmptyMetadata, t)
    /\ sinceOp' = 0
    /\ fleet' = [fleet EXCEPT ![i] = IF @.state \in Live THEN ServerSetTimeout(@, t) ELSE @]
    /\ info' = NoInfo
    /\ NoListing
    /\ FleetFrame

\* the seconds one list request may take on the clock time.time() reads
Durations == {0, 1}

\* d seconds can pass: the service has reaped what was due before they end
CanPass(d) ==
    \A i \in OtherIds : fleet[i].state = "RUNNING" => fleet[i].age + d <= fleet[i].limit

\* the sessions fl after d more seconds
Aged(fl, d) ==
    [i \in OtherIds |->
        IF fl[i].state = "RUNNING" THEN [fl[i] EXCEPT !.age = @ + d] ELSE fl[i]]

\* one second passes between two steps of the test: for a running session,
\* or for a wait_for_sandbox inside time.sleep(interval)
Tick ==
    /\ IF wait.pc \in {"head", "listing", "remaining"}
       THEN wait.pc = "head" /\ wait.left > 0
       ELSE \E i \in OtherIds : fleet[i].state = "RUNNING"
    /\ CanPass(1)
    /\ fleet' = Aged(fleet, 1)
    /\ sinceOp' = sinceOp + 1
    /\ wait' = IF wait.pc = "head"
               THEN [wait EXCEPT !.elapsed = @ + 1, !.left = @ - 1]
               ELSE wait
    /\ UNCHANGED <<fop, info, query, pageSize, listed, atQuery, paginator>>
    /\ FleetFrame

\* the timeout of session i has elapsed: the service reaps it
FleetExpire(i) ==
    /\ fleet[i].state = "RUNNING"
    /\ fleet[i].age >= fleet[i].limit
    /\ fleet' = [fleet EXCEPT ![i] = Gone]
    /\ UNCHANGED <<fop, info, query, pageSize, listed, atQuery, sinceOp, paginator, wait>>
    /\ FleetFrame

\* the poll loop without its break: a poll that finds nothing sleeps too
AfterListing_NoBreak(w, sandboxes) ==
    IF w.pc = "listing" THEN Wait("head", w.elapsed, wait_interval)
    ELSE IF w.pc = "remaining" THEN Wait("raised", w.elapsed, 0)
    ELSE w

\* wait_for_sandbox once its list_sandbox has returned `sandboxes`: in the
\* loop, break when the list is empty, else time.sleep(interval) and back to
\* the loop condition; in the else branch, raise TimeoutError
AfterListing(w, sandboxes) ==
    IF w.pc = "listing"
    THEN IF Len(sandboxes) = 0
         THEN Wait("returned", w.elapsed, 0)
         ELSE Wait("head", w.elapsed, wait_interval)
    ELSE IF w.pc = "remaining" THEN Wait("raised", w.elapsed, 0)
    ELSE w

\* list_sandbox(q) enters: Sandbox.list and the first next_items(), served in
\* pages of p from the sessions as they are now, the request taking d
\* seconds; w is the wait_for_sandbox the call is made in, if any
FirstPage(q, p, w, d) ==
    LET page == NextItems(SessionInfos(Registry(state, timeout, sandbox_id, fleet)), q, 0, p)
        after == [w EXCEPT !.elapsed = @ + d]
    IN  /\ CanPass(d)
        /\ query' = q
        /\ pageSize' = p
        /\ listed' = page.items
        /\ paginator' = Paginator(page.next_token)
        /\ wait' = IF page.next_token # 0 THEN after ELSE AfterListing(after, page.items)
        /\ atQuery' = Registry(state, timeout, sandbox_id, fleet)
        /\ sinceOp' = after.elapsed
        /\ fleet' = Aged(fleet, d)

\* list_sandbox(query) is called by a test; nothing there reads a clock, and
\* the time its requests take is the time that passes between the steps
ListSandbox ==
    /\ pc = "idle"
    /\ FleetIdle
    /\ \E q \in Queries, p \in PageSizes : FirstPage(q, p, NoWait, 0)
    /\ UNCHANGED info
    /\ fop' = FleetOp("list", 0, TRUE, "", EmptyMetadata, 0)
    /\ FleetFrame

\* the loop assigning the page where it should extend the list with it
ListNextPage_Assign ==
    /\ paginator.has_next
    /\ \E d \in IF wait.pc = "none" THEN {0} ELSE Durations :
          LET page == NextItems(SessionInfos(Registry(state, timeout, sandbox_id, fleet)),
                                query, paginator.token, pageSize)
              after == [wait EXCEPT !.elapsed = @ + d]
          IN  /\ CanPass(d)
              /\ listed' = page.items
              /\ paginator' = Paginator(page.next_token)
              /\ wait' = IF page.next_token # 0 THEN after
                         ELSE AfterListing(after, page.items)
              /\ fleet' = Aged(fleet, d)
              /\ sinceOp' = sinceOp + d
    /\ UNCHANGED <<fop, info, query, pageSize, atQuery>>
    /\ FleetFrame

\* while paginator.has_next: sandboxes.extend(paginator.next_items()), one
\* request served from the sessions as they are now, taking d seconds of a
\* wait_for_sandbox; after the last page list_sandbox returns to its caller
ListNextPage ==
    /\ paginator.has_next
    /\ \E d \in IF wait.pc = "none" THEN {0} ELSE Durations :
          LET page == NextItems(SessionInfos(Registry(state, timeout, sandbox_id, fleet)),
                                query, paginator.token, pageSize)
              after == [wait EXCEPT !.elapsed = @ + d]
          IN  /\ CanPass(d)
              /\ listed' = listed \o page.items
              /\ paginator' = Paginator(page.next_token)
              /\ wait' = IF page.next_token # 0 THEN after
                         ELSE AfterListing(after, listed \o page.items)
              /\ fleet' = Aged(fleet, d)
              /\ sinceOp' = sinceOp + d
    /\ UNCHANGED <<fop, info, query, pageSize, atQuery>>
    /\ FleetFrame

\* the loop condition of wait_for_sandbox w holds or not, and list_sandbox()
\* is called in the loop or in its else branch; its first request takes d
\* seconds
WaitRequest(w, p, d) ==
    FirstPage(NoQuery, p,
              Wait(IF w.elapsed < wait_timeout THEN "listing" ELSE "remaining",
                   w.elapsed, 0),
              d)

\* the fixture wait_for_sandbox starts before a test: the test before has
\* returned and its locals are gone, start_time is taken and the loop is
\* entered
WaitCall ==
    /\ pc = "idle"
    /\ FleetIdle
    /\ \E p \in PageSizes, d \in Durations : WaitRequest(Wait("head", 0, 0), p, d)
    /\ info' = NoInfo
    /\ fop' = FleetOp("wait_for_sandbox", 0, TRUE, "", EmptyMetadata, 0)
    /\ FleetFrame

\* the sleep is over: the loop condition is evaluated again
WaitPoll ==
    /\ wait.pc = "head"
    /\ wait.left = 0
    /\ \E d \in Durations : WaitRequest(wait, pageSize, d)
    /\ UNCHANGED <<fop, info>>
    /\ FleetFrame

\* the metadata the listing tests give the k-th session they create
ListedMetadata(k) ==
    <<[userId |-> "123"], [userId |-> "456"], [userId |-> "123", case |-> "A"]>>[(k % 3) + 1]

\* sessions created with metadata of their own and a timeout, as the listing
\* tests do
CreateOther ==
    \E i \in OtherIds : FleetCreate(i, "code-interpreter", 1, ListedMetadata(i - MaxIds - 1))

GetInfoOther == \E i \in OtherIds : FleetGetInfo(i)

KillOther == \E i \in OtherIds : FleetKill(i)

SetTimeoutOther == \E i \in OtherIds, t \in Timeouts : FleetSetTimeout(i, t)

ExpireOther == \E i \in OtherIds : FleetExpire(i)

\* sessions created with a timeout each, as test_lifecycle and test_timeout do
CreateTimed ==
    \E i \in OtherIds, t \in Timeouts,
       a \in {<<"code-interpreter", [userId |-> "123"]>>, <<"base", [userId |-> "123"]>>,
              <<"base", [case |-> "timeout"]>>} :
        FleetCreate(i, a[1], t, a[2])

\* test_pause_kill: Sandbox.create(template, timeout=6000, metadata), a
\* timeout that does not elapse while the test and the fixture run; the
\* service hands out its first identifier
CreateForKill ==
    /\ Create
    /\ sandbox_id' = 1
    /\ timeout' = MaxTimeout

\* test_lifecycle: its one Sandbox.create(template="code-interpreter",
\* timeout=30, metadata={'userId': '123'}), 30 s on the clock
\* wait_for_sandbox reads
CreateLeftover ==
    FleetCreate(MaxIds + 1, "code-interpreter", 30, [userId |-> "123"])

\* time.sleep(interval) of wait_for_sandbox, a second at a time: between the
\* fixtures the calls of test_lifecycle and the cleanup follow one another
\* with no sleep
WaitSleep ==
    /\ wait.pc = "head"
    /\ Tick

----------------------------------------------------------------------------
(* Calls of the endpoint resolution *)

ResolverFrame == UNCHANGED <<sessionVars, fleetVars, bgVars, loopVars, ctxVars>>

\* get_host of an object of class cls, with what patch_e2b has installed
get_host(cls, p, sandbox_domain, id, port) ==
    IF cls = "kruise_agents.e2b.Sandbox"
    THEN Sandbox_get_host(sandbox_domain, id, port)
    ELSE IF ~p.get_host
    THEN sdk_get_host(sandbox_domain, id, port)
    ELSE IF cls = "ConnectionConfig"
    THEN patch_connection_config_get_host(id, sandbox_domain, port)
    ELSE patch_sandbox_get_host(sandbox_domain, id, port)

\* the scheme the unpatched SDK puts before a data-plane host: http for a
\* handle in debug mode, https otherwise
sdk_scheme(debug) == IF debug THEN "http" ELSE "https"

\* ConnectionConfig.get_sandbox_url(sandbox_id, sandbox_domain) with what
\* patch_e2b has installed: __connection_config_get_sandbox_url_http once a
\* patch_e2b(https=False) has run, the SDK's own otherwise (envd port 49983)
get_sandbox_url(p, debug, id, sandbox_domain) ==
    IF p.http_urls
    THEN "http://" \o patch_connection_config_get_host(id, sandbox_domain, 49983)
    ELSE sdk_scheme(debug) \o "://" \o get_host("ConnectionConfig", p, sandbox_domain, id, 49983)

\* Sandbox._jupyter_url of a session with what patch_e2b has installed:
\* __jupyter_url_http once a patch_e2b(https=False) has run (JUPYTER_PORT 49999)
jupyter_url(p, debug, sandbox_domain, id) ==
    IF p.http_urls
    THEN "http://" \o patch_sandbox_get_host(sandbox_domain, id, 49999)
    ELSE sdk_scheme(debug) \o "://" \o get_host("e2b.Sandbox", p, sandbox_domain, id, 49999)

Classes == {"kruise_agents.e2b.Sandbox", "e2b.Sandbox", "ConnectionConfig"}

\* get_api_url(https) is called
GetApiUrl ==
    /\ \E https \in BOOLEAN :
          /\ rop' = Call("get_api_url", "", https, "", "", 0, FALSE)
          /\ result' = get_api_url(env, https)
    /\ wire' = <<>>
    /\ UNCHANGED <<env, patched>>
    /\ ResolverFrame

\* patch_e2b(https): the URL is resolved first, then the SDK is patched
PatchE2b ==
    /\ \E https \in BOOLEAN :
          LET u == patch_get_api_url(env, https)
          IN  /\ rop' = Call("patch_e2b", "", https, "", "", 0, FALSE)
              /\ IF u.ok
                 THEN /\ env' = SetEnviron(env, "E2B_API_URL", u.val)
                      /\ patched' = [get_host |-> TRUE,
                                     http_urls |-> patched.http_urls \/ ~https]
                      /\ result' = NoResult
                 ELSE /\ result' = u
                      /\ UNCHANGED <<env, patched>>
    /\ wire' = <<>>
    /\ ResolverFrame

\* the handle super().create / super().connect returned
Handle(debug) == [Returned("Sandbox") EXCEPT !.debug = debug]

\* create, after super().create: `if not https: sbx.connection_config.debug = True`
create_debug(sbx, https) == IF ~https THEN [sbx EXCEPT !.debug = TRUE] ELSE sbx

\* connect and _cls_connect return what super() returned
connect_debug(sbx, https) == sbx

\* kruise_agents.e2b.Sandbox.create(..., https=...): api_url is an argument
\* of super().create, evaluated before the SDK is entered
SandboxCreate ==
    /\ \E https \in BOOLEAN, debug \in BOOLEAN :
          LET u == get_api_url(env, https)
          IN  /\ rop' = Call("create", "kruise_agents.e2b.Sandbox", https, "", "", 0, debug)
              /\ IF u.ok
                 THEN /\ wire' = <<u.val>>
                      /\ result' = create_debug(Handle(debug), https)
                 ELSE /\ wire' = <<>>
                      /\ result' = u
    /\ UNCHANGED <<env, patched>>
    /\ ResolverFrame

\* kruise_agents.e2b.Sandbox.connect / _cls_connect(sandbox_id, ..., https=...)
SandboxConnect ==
    /\ \E https \in BOOLEAN, name \in {"connect", "_cls_connect"}, id \in SandboxIds,
          debug \in BOOLEAN :
          LET u == get_api_url(env, https)
          IN  /\ rop' = Call(name, "kruise_agents.e2b.Sandbox", https, "", ToString(id), 0,
                              debug)
              /\ IF u.ok
                 THEN /\ wire' = <<u.val>>
                      /\ result' = connect_debug(Handle(debug), https)
                 ELSE /\ wire' = <<>>
                      /\ result' = u
    /\ UNCHANGED <<env, patched>>
    /\ ResolverFrame

\* get_host(port) on a session, or ConnectionConfig.get_host(id, domain, port)
GetHost ==
    /\ \E cls \in Classes, d \in Domains, id \in SandboxIds, port \in Ports :
          /\ rop' = Call("get_host", cls, FALSE, d, ToString(id), port, FALSE)
          /\ result' = Returned(get_host(cls, patched, d, ToString(id), port))
    /\ wire' = <<>>
    /\ UNCHANGED <<env, patched>>
    /\ ResolverFrame

----------------------------------------------------------------------------
(* A background command of a running session *)

BgFrame == UNCHANGED <<sessionVars, fleetVars, resolverVars, loopVars, ctxVars>>

\* command = sbx.commands.run(command, background=True): the process is
\* started and its handle returned; the test starts with empty lists
BgRun ==
    /\ procSt \in {"none", "exited", "killed"}
    /\ iter # "iterating"
    /\ \E n \in 0..MaxSegs : total' = n
    /\ procSt' = "running"
    /\ emitted' = <<>>
    /\ iter' = "none"
    /\ consumed' = 0
    /\ stdout_output' = <<>>
    /\ stderr_output' = <<>>
    /\ bop' = BgOp("run", FALSE, "CommandHandle", procSt)
    /\ BgFrame

\* the process writes its next segment
ProcEmit ==
    /\ procSt = "running"
    /\ Len(emitted) < total
    /\ \E stream \in Streams :
          emitted' = Append(emitted, Segment(stream, Len(emitted) + 1))
    /\ UNCHANGED <<procSt, total, iter, consumed, stdout_output, stderr_output, bop>>
    /\ BgFrame

\* the process has written everything and exits
ProcExit ==
    /\ procSt = "running"
    /\ Len(emitted) = total
    /\ procSt' = "exited"
    /\ UNCHANGED <<total, emitted, iter, consumed, stdout_output, stderr_output, bop>>
    /\ BgFrame

\* for stdout, stderr, _ in command: one pass of the loop body, for the
\* next segment that has arrived
IterNext ==
    /\ procSt # "none"
    /\ iter \in {"none", "iterating"}
    /\ consumed < Len(emitted)
    /\ LET seg == emitted[consumed + 1]
       IN  /\ stdout_output' = IF seg.stream = "stdout"
                                THEN Append(stdout_output, seg.n) ELSE stdout_output
           /\ stderr_output' = IF seg.stream = "stderr"
                                THEN Append(stderr_output, seg.n) ELSE stderr_output
           /\ bop' = BgOp("next", FALSE, seg.stream, procSt)
    /\ consumed' = consumed + 1
    /\ iter' = "iterating"
    /\ UNCHANGED <<procSt, total, emitted>>
    /\ BgFrame

\* the loop ends: the process is gone and every segment was yielded
IterEnd ==
    /\ procSt \in {"exited", "killed"}
    /\ iter \in {"none", "iterating"}
    /\ consumed = Len(emitted)
    /\ iter' = "done"
    /\ bop' = BgOp("iter_end", FALSE, "StopIteration", procSt)
    /\ UNCHANGED <<procSt, total, emitted, consumed, stdout_output, stderr_output>>
    /\ BgFrame

\* kill on the handle raising when the process is no longer there
HandleKill_Strict ==
    /\ procSt # "none"
    /\ bop' = BgOp("kill", procSt # "running",
                   IF procSt = "running" THEN "True" ELSE "", procSt)
    /\ procSt' = IF procSt = "running" THEN "killed" ELSE procSt
    /\ iter' = IF iter = "iterating" THEN "done" ELSE iter
    /\ UNCHANGED <<total, emitted, consumed, stdout_output, stderr_output>>
    /\ BgFrame

\* command.kill(): true when it killed the process, false when there was
\* none to kill; a loop over the handle that was under way is left
HandleKill ==
    /\ procSt # "none"
    /\ bop' = BgOp("kill", FALSE, IF procSt = "running" THEN "True" ELSE "False", procSt)
    /\ procSt' = IF procSt = "running" THEN "killed" ELSE procSt
    /\ iter' = IF iter = "iterating" THEN "done" ELSE iter
    /\ UNCHANGED <<total, emitted, consumed, stdout_output, stderr_output>>
    /\ BgFrame

----------------------------------------------------------------------------
(* Concurrent callers *)

LoopFrame == UNCHANGED <<sessionVars, fleetVars, resolverVars, bgVars, ctxVars>>

\* the locals max_retries and retry_interval of helper h
MaxRetries(h) == IF h = "connect_sandbox" THEN max_retries_connect ELSE max_retries_run

RetryInterval(h) ==
    IF h = "connect_sandbox" THEN retry_interval_connect ELSE retry_interval_run

\* the wrapped operation of helper h on a session in state st
LoopAnswer(h, st) ==
    IF h = "connect_sandbox"
    THEN [ok |-> ServerConnectAnswer(st).ok, err |-> ServerConnectAnswer(st).err]
    ELSE ServerExecAnswer(st)

\* the except clause of helper h
LoopOnError(h, e, a) == IF h = "connect_sandbox" THEN ConnectOnError(e, a) ELSE RunOnError(e, a)

\* what helper h returns when its operation on session i succeeds
LoopValue(h, i) == IF h = "connect_sandbox" THEN SandboxVal(i) ELSE Execution(0)

\* one attempt counter for every caller instead of a local of each call
NextAttempt_Shared(att, i) == [j \in DOMAIN att |-> att[j] + 1]

\* `for attempt in range(max_retries)`: caller i's own loop variable advances
NextAttempt(att, i) == [att EXCEPT ![i] = @ + 1]

\* caller i is at the try block: the wrapped operation is invoked on its session
LoopAttempt(i) ==
    /\ lpc[i] = "attempt"
    /\ LET h == helper[i]
           ans == LoopAnswer(h, SessionAt(script[i], lcalls[i]))
           d == LoopOnError(h, ans.err, lattempt[i])
       IN  IF lattempt[i] >= MaxRetries(h)
           THEN /\ lpc' = [lpc EXCEPT ![i] = "done"]
                /\ lout' = [lout EXCEPT ![i] = [NoOutcome EXCEPT !.outcome = "returned"]]
                /\ lcalls' = lcalls
           ELSE /\ lcalls' = [lcalls EXCEPT ![i] = @ + 1]
                /\ IF ans.ok
                   THEN /\ lpc' = [lpc EXCEPT ![i] = "done"]
                        /\ lout' = [lout EXCEPT ![i] =
                                      [NoOutcome EXCEPT !.outcome = "returned",
                                                        !.ret = LoopValue(h, i)]]
                   ELSE IF d.do = "retry"
                   THEN /\ lpc' = [lpc EXCEPT ![i] = "sleeping"]
                        /\ lout' = lout
                   ELSE /\ lpc' = [lpc EXCEPT ![i] = "done"]
                        /\ lout' = [lout EXCEPT ![i] =
                                      [NoOutcome EXCEPT !.outcome = "raised",
                                                        !.err = d.err, !.cause = d.cause]]
    /\ UNCHANGED <<helper, script, lattempt, lslept>>
    /\ LoopFrame

\* caller i's time.sleep(retry_interval) returns and its loop continues
LoopSleep(i) ==
    /\ lpc[i] = "sleeping"
    /\ lslept' = [lslept EXCEPT ![i] = @ + RetryInterval(helper[i])]
    /\ lattempt' = NextAttempt(lattempt, i)
    /\ lpc' = [lpc EXCEPT ![i] = "attempt"]
    /\ UNCHANGED <<helper, script, lcalls, lout>>
    /\ LoopFrame

\* helper h run by one caller with nothing else going on, against a session
\* scripted by s: the loop from attempt a on, after `n` invocations and `t`
\* seconds of sleep; v is the value a successful operation hands back
RECURSIVE AloneLoop(_, _, _, _, _, _)
AloneLoop(h, s, v, a, n, t) ==
    IF a >= MaxRetries(h)
    THEN [calls |-> n, slept |-> t, out |-> [NoOutcome EXCEPT !.outcome = "returned"]]
    ELSE LET ans == LoopAnswer(h, SessionAt(s, n))
             d == LoopOnError(h, ans.err, a)
         IN  IF ans.ok
             THEN [calls |-> n + 1, slept |-> t,
                   out |-> [NoOutcome EXCEPT !.outcome = "returned", !.ret = v]]
             ELSE IF d.do = "retry"
             THEN AloneLoop(h, s, v, a + 1, n + 1, t + RetryInterval(h))
             ELSE [calls |-> n + 1, slept |-> t,
                   out |-> [NoOutcome EXCEPT !.outcome = "raised",
                                             !.err = d.err, !.cause = d.cause]]

\* caller i's helper run alone from the start
Alone(i) == AloneLoop(helper[i], script[i], LoopValue(helper[i], i), 0, 0, 0)

----------------------------------------------------------------------------
(* SandboxContext *)

\* the try block of cleanup's loop for handle h: sandbox_id.split("--")[1],
\* then sandbox.kill(), then the logs when the test failed; `kill` tells
\* whether kill was invoked and `caught` what the except clause caught
CleanupBody(h, test_failed) ==
    IF Len(split(h.sandbox_id, "--", <<>>, <<>>)) < 2
    THEN [kill |-> FALSE, caught |-> "IndexError"]
    ELSE IF h.kill_raises
    THEN [kill |-> TRUE, caught |-> "kill"]
    ELSE IF test_failed /\ h.logs_raise
    THEN [kill |-> TRUE, caught |-> "kubectl"]
    ELSE [kill |-> TRUE, caught |-> "none"]

\* context.add(sandbox): the handle is appended; n tells the handles apart,
\* kill_raises and logs_raise are what its kill and the log collection for
\* it will do
CtxAdd ==
    /\ Len(ctx_sandboxes) < MaxRegistered
    /\ \E id \in Identifiers, kr \in BOOLEAN, lr \in BOOLEAN :
          ctx_sandboxes' = Append(ctx_sandboxes,
                                  [n |-> Len(ctx_sandboxes) + 1, sandbox_id |-> id,
                                   kill_raises |-> kr, logs_raise |-> lr])
    /\ kill_calls' = <<>>
    /\ cop' = [name |-> "add", test_failed |-> FALSE, escaped |-> FALSE,
               registry |-> ctx_sandboxes, caught |-> <<>>]
    /\ UNCHANGED <<sessionVars, fleetVars, resolverVars, bgVars, loopVars>>

\* context.cleanup(test_failed): with nothing registered and a failed test
\* the manager's logs are printed and the call returns; otherwise every
\* handle is gone through inside its own try block, whose except clause
\* catches what the body raises, and the list is cleared
CtxCleanup ==
    /\ \E tf \in BOOLEAN :
          LET reached == SelectSeq(ctx_sandboxes, LAMBDA h : CleanupBody(h, tf).kill)
          IN  /\ cop' = [name |-> "cleanup", test_failed |-> tf, escaped |-> FALSE,
                         registry |-> ctx_sandboxes,
                         caught |-> [k \in 1..Len(ctx_sandboxes) |->
                                       CleanupBody(ctx_sandboxes[k], tf).caught]]
              /\ kill_calls' = [k \in 1..Len(reached) |-> reached[k].n]
    /\ ctx_sandboxes' = <<>>
    /\ UNCHANGED <<sessionVars, fleetVars, resolverVars, bgVars, loopVars>>

Next ==
    \/ Create
    \/ Pause
    \/ CompletePause
    \/ TimeoutExpire
    \/ Kill
    \/ GetInfo
    \/ SetTimeout
    \/ IsRunning
    \/ ConnectCall
    \/ ConnectAttempt
    \/ ConnectAttemptFault
    \/ RunCall
    \/ RunAttempt
    \/ RunAttemptFault
    \/ ShellCall
    \/ ShellAttempt
    \/ ShellAttemptFault

Spec == Init /\ [][Next]_vars

\* the same system over a transport that delivers every request: each attempt
\* is answered by the service, and a started helper keeps running
NextReliable ==
    \/ Create
    \/ Pause
    \/ CompletePause
    \/ TimeoutExpire
    \/ Kill
    \/ GetInfo
    \/ SetTimeout
    \/ IsRunning
    \/ ConnectCall
    \/ ConnectAttempt
    \/ RunCall
    \/ RunAttempt
    \/ ShellCall
    \/ ShellAttempt

SpecReliable ==
    /\ Init
    /\ [][NextReliable]_vars
    /\ WF_vars(ConnectAttempt)
    /\ WF_vars(RunAttempt)
    /\ WF_vars(ShellAttempt)

\* the listing tests: sessions are created, inspected and listed page by
\* page, while time passes and the service reaps sessions whose timeout has
\* elapsed
NextFleet ==
    \/ CreateOther
    \/ GetInfoOther
    \/ Tick
    \/ ExpireOther
    \/ ListSandbox
    \/ ListNextPage

SpecFleet == Init /\ [][NextFleet]_vars

\* the service with several running sessions and the clock
NextTimeout ==
    \/ CreateTimed
    \/ GetInfoOther
    \/ SetTimeoutOther
    \/ KillOther
    \/ Tick
    \/ ExpireOther

SpecTimeout == Init /\ [][NextTimeout]_vars

\* test_pause_kill and test_lifecycle with the cleanup that kills their
\* sessions or fails to, and the fixture that waits before the next test for
\* the listing to be empty, while the service reaps what is due
NextWait ==
    \/ CreateForKill
    \/ Pause
    \/ CompletePause
    \/ Kill
    \/ CreateLeftover
    \/ GetInfoOther
    \/ KillOther
    \/ WaitSleep
    \/ ExpireOther
    \/ WaitCall
    \/ ListNextPage
    \/ WaitPoll

\* the clock runs and the service reaps a session whose timeout has elapsed;
\* list_sandbox requests its next page, and wait_for_sandbox evaluates its
\* loop condition again once its sleep is over
SpecWait ==
    /\ Init
    /\ [][NextWait]_vars
    /\ WF_vars(WaitSleep)
    /\ WF_vars(ExpireOther)
    /\ WF_vars(ListNextPage)
    /\ WF_vars(WaitPoll)

\* the client process started with any environment and the SDK as shipped
\* (before conftest or a caller patches it), resolving endpoints
InitAnyEnv ==
    /\ InitSession
    /\ InitFleet
    /\ InitBackground
    /\ NoLoops
    /\ InitContext
    /\ \E e \in Envs : InitResolver(e, Unpatched)

NextResolver ==
    \/ GetApiUrl
    \/ PatchE2b
    \/ SandboxCreate
    \/ SandboxConnect
    \/ GetHost

SpecResolver == InitAnyEnv /\ [][NextResolver]_vars

\* a session running background commands one after the other
NextBackground ==
    \/ BgRun
    \/ ProcEmit
    \/ ProcExit
    \/ IterNext
    \/ IterEnd
    \/ HandleKill

SpecBackground == Init /\ [][NextBackground]_vars

\* two callers started together, each running one helper on its own session
InitConcurrent ==
    /\ InitSession
    /\ InitFleet
    /\ InitBackground
    /\ LET e == [E2B_API_KEY |-> "key", E2B_DOMAIN |-> "localhost"]
       IN  InitResolver(SetEnviron(e, "E2B_API_URL", patch_get_api_url(e, FALSE).val),
                        [get_host |-> TRUE, http_urls |-> TRUE])
    /\ InitContext
    /\ \E h \in [Loops -> {"connect_sandbox", "run_code_sandbox"}],
          s \in [Loops -> Scripts] : InitLoops(h, s)

NextConcurrent ==
    \/ \E i \in Loops : LoopAttempt(i)
    \/ \E i \in Loops : LoopSleep(i)

SpecConcurrent == InitConcurrent /\ [][NextConcurrent]_vars

\* tests registering sandboxes in their context, the fixture cleaning it up
NextCleanup ==
    \/ CtxAdd
    \/ CtxCleanup

SpecCleanup == Init /\ [][NextCleanup]_vars

----------------------------------------------------------------------------
(* Properties *)

HasPausingText(e) == Contains(e.msg, PausingText)

\* the helper `name` has returned to its caller or raised
Done(name) == pc = "idle" /\ op = name /\ outcome # "none"

\* C1: retry bound. One call of connect_sandbox invokes sbx.connect at most
\* 30 times and one call of run_code_sandbox invokes sbx.run_code at most 5
\* times, whatever the attempts do.
C1_RetryBound ==
    /\ op = "connect_sandbox" => calls <= 30
    /\ op = "run_code_sandbox" => calls <= 5

C1_Witness ==
    /\ Done("connect_sandbox")
    /\ calls = 30
    /\ failed = 30

\* C2: when every sbx.connect attempt fails with the pausing error,
\* connect_sandbox has invoked sbx.connect exactly 30 times and raises an
\* error that tells exhaustion: not the pausing error itself (which it
\* carries as its cause) and not a normal return.
C2_ConnectExhaustion ==
    (Done("connect_sandbox") /\ calls > 0 /\ pausingSeen = calls) =>
        /\ calls = 30
        /\ outcome = "raised"
        /\ err.kind = "Exception"
        /\ err.msg = <<"Sandbox still pausing after", "30", "retries">>
        /\ ~HasPausingText(err)
        /\ err # lastErr
        /\ cause = lastErr
        /\ HasPausingText(cause)

C2_Witness ==
    /\ Done("connect_sandbox")
    /\ pausingSeen = 30
    /\ outcome = "raised"

\* C3: exhaustion on the execution path. When every sbx.run_code attempt
\* raises, run_code_sandbox has invoked it exactly 5 times and surfaces an
\* exhaustion error the caller can tell from the error the failing attempt
\* itself produced: another error, or one carrying the attempt's as cause.
C3_RunExhaustionSurfaced ==
    (Done("run_code_sandbox") /\ calls > 0 /\ failed = calls) =>
        /\ calls = 5
        /\ outcome = "raised"
        /\ (err # lastErr \/ cause # NoErr)

\* C4: no retry on a terminal error. At whichever attempt sbx.connect raises
\* an error whose message lacks the pausing text, connect_sandbox ends in
\* that very step: the same error reaches the caller, nothing is slept, and
\* the invocations are the earlier pausing ones plus this one (one in all
\* when it is the first attempt).
C4_TerminalNotRetried ==
    [][(pc = "connect" /\ failed' = failed + 1 /\ ~HasPausingText(lastErr')) =>
          /\ pc' = "idle"
          /\ outcome' = "raised"
          /\ err' = lastErr'
          /\ cause' = NoErr
          /\ sleeps' = sleeps
          /\ slept' = slept
          /\ calls' = pausingSeen + 1
          /\ (attempt = 0 => calls' = 1)]_vars

C4_Witness ==
    /\ Done("connect_sandbox")
    /\ outcome = "raised"
    /\ err = TimeoutErr
    /\ pausingSeen = 2
    /\ calls = 3
    /\ sleeps = 2
    /\ slept = 4

\* C5: pausing convergence. For a connect_sandbox call made while the
\* session is PAUSING, an error reaches the caller only if the session was
\* still pausing at the 30th attempt; and once the server has completed the
\* transition with fewer than 30 attempts made, the call eventually returns
\* the connected session.
C5_PausingConvergence ==
    /\ []((Done("connect_sandbox") /\ stAtCall = "PAUSING" /\ outcome = "raised") =>
            (calls = 30 /\ pausingSeen = 30))
    /\ ((pc = "connect" /\ stAtCall = "PAUSING" /\ state = "PAUSED" /\ calls < 30)
          ~> (/\ Done("connect_sandbox")
              /\ outcome = "returned"
              /\ ret = SandboxVal(sandbox_id)
              /\ err = NoErr))

C5_Witness ==
    /\ Done("connect_sandbox")
    /\ stAtCall = "PAUSING"
    /\ outcome = "returned"
    /\ ret = SandboxVal(sandbox_id)
    /\ pausingSeen = 29
    /\ calls = 30
    /\ state = "RUNNING"

\* C6 as claimed: whenever run_code_sandbox returns an execution, the
\* fragments its streaming callback received during the call are, in order
\* and without duplicates, the output of the returned result.
C6_StreamEqualsResult ==
    (Done("run_code_sandbox") /\ outcome = "returned" /\ ret.tag = "Execution") =>
        cb = ret.stdout

\* C7: not-found is terminal on the connect path. A connect_sandbox call on
\* an identifier the service does not know, or whose session was reaped, ends
\* raising the not-found error itself after exactly one sbx.connect
\* invocation and no sleep.
C7_NotFoundTerminal ==
    (Done("connect_sandbox")
       /\ (stAtCall \in {"NONE", "TERMINATED"} \/ lastErr.kind = "NotFoundException")) =>
        /\ outcome = "raised"
        /\ err = NotFoundErr
        /\ cause = NoErr
        /\ calls = 1
        /\ sleeps = 0
        /\ slept = 0

C7_Witness ==
    /\ Done("connect_sandbox")
    /\ stAtCall = "TERMINATED"
    /\ err.kind = "NotFoundException"

\* C8: remote command failure. When commands.run is invoked on a running
\* session with a command that exits non-zero, the call ends in that step
\* raising a command-exit error that carries the exit code and the captured
\* stderr; it is the only invocation and nothing is slept.
C8_CommandExit ==
    [][(pc = "shell" /\ state = "RUNNING" /\ code # 0 /\ calls' = calls + 1) =>
          /\ pc' = "idle"
          /\ outcome' = "raised"
          /\ ret' = NoVal
          /\ err'.kind = "CommandExitException"
          /\ err'.exit_code = code
          /\ err'.stderr # <<>>
          /\ err'.stderr = Stderr(code)
          /\ calls' = 1
          /\ sleeps' = 0
          /\ slept' = 0]_vars

C8_Witness ==
    /\ Done("execute_shell_command")
    /\ outcome = "raised"
    /\ err.kind = "CommandExitException"
    /\ err.exit_code = 127
    /\ calls = 1

\* C9: kill is idempotent. A kill returns without raising and leaves the
\* session TERMINATED, also when the session was TERMINATED already: the
\* second kill shows what the first one showed.
C9_KillIdempotent ==
    (pc = "idle" /\ op = "kill") =>
        /\ outcome = "returned"
        /\ err = NoErr
        /\ state = "TERMINATED"

C9_Witness ==
    /\ pc = "idle"
    /\ op = "kill"
    /\ stAtCall = "TERMINATED"
    /\ outcome = "returned"

\* C10: TERMINATED is absorbing. No step takes a TERMINATED session to
\* another state; is_running on it reports false; and get_info, connect and
\* execute calls made on it end raising the not-found error.
C10_TerminatedAbsorbing ==
    /\ [][state = "TERMINATED" => state' = "TERMINATED"]_vars
    /\ []((op = "is_running" /\ stAtCall = "TERMINATED") => ret.tag = "False")
    /\ []((/\ pc = "idle"
           /\ stAtCall = "TERMINATED"
           /\ op \in {"get_info", "connect_sandbox", "run_code_sandbox",
                      "execute_shell_command"}) =>
            (outcome = "raised" /\ err = NotFoundErr))

C10_Witness ==
    /\ Done("run_code_sandbox")
    /\ stAtCall = "TERMINATED"
    /\ state = "TERMINATED"
    /\ calls = 5
    /\ err = NotFoundErr

\* C11: identifier immutability. Once create has issued the session's
\* identifier no step changes it, whether a pause, a connect that resumes, a
\* set_timeout, an execute or a failed retry attempt; and the session a
\* successful connect_sandbox returns carries that identifier.
C11_IdentifierImmutable ==
    /\ [][sandbox_id # 0 => sandbox_id' = sandbox_id]_vars
    /\ []((Done("connect_sandbox") /\ outcome = "returned") =>
            (ret.tag = "Sandbox" /\ ret.id = sandbox_id /\ ret.id \in SandboxIds))

C11_Witness ==
    /\ Done("connect_sandbox")
    /\ stAtCall = "PAUSING"
    /\ failed = 3
    /\ outcome = "returned"
    /\ sandbox_id = 2
    /\ ret.id = 2

\* C12: a get_info that directly follows the successful create of a session
\* (which its timeout has not reaped) succeeds and reports the state RUNNING,
\* the template given at create and, key by key, the metadata given at create.
C12_CreateThenGetInfo ==
    [][(/\ fop.kind = "create"
        /\ fop'.kind = "get_info"
        /\ fop'.id = fop.id
        /\ fleet[fop.id].state # "TERMINATED") =>
          /\ fop'.ok
          /\ info'.sandbox_id = fop.id
          /\ info'.state = "RUNNING"
          /\ info'.template_id = fop.template
          /\ DOMAIN info'.metadata = DOMAIN fop.metadata
          /\ \A k \in DOMAIN fop.metadata : info'.metadata[k] = fop.metadata[k]]_vars

C12_Witness ==
    /\ fop.kind = "get_info"
    /\ fop.ok
    /\ info.sandbox_id = fop.id
    /\ info.state = "RUNNING"
    /\ info.template_id = "base"
    /\ info.metadata = [userId |-> "123"]
    /\ fleet[fop.id].age = 0

\* what list_sandbox(query) returns in the current state, served in pages of p
Listing(q, p) ==
    list_sandbox(SessionInfos(Registry(state, timeout, sandbox_id, fleet)), q, p)

\* C13 as claimed: as soon as the pause call on a RUNNING session has
\* returned, a fully paginated list filtered by state = [PAUSED] contains the
\* session's identifier, whatever the page size.
C13_PausedListedAtOnce ==
    (pc = "idle" /\ op = "pause" /\ stAtCall = "RUNNING" /\ outcome = "returned") =>
        \A p \in PageSizes :
            sandbox_id \in Ids(Listing(SandboxQuery(EmptyMetadata, {"PAUSED"}), p))

\* C14: at the step in which connect_sandbox returns successfully for a
\* session that was paused (or being paused) when it was called, the session
\* is RUNNING: the fully paginated listing filtered by state = [RUNNING]
\* contains its identifier whatever the page size, and run_code and
\* commands.run are accepted again.
C14_ResumedRunning ==
    [][(/\ pc = "connect"
        /\ pc' = "idle"
        /\ outcome' = "returned"
        /\ stAtCall \in {"PAUSING", "PAUSED"}) =>
          /\ state' = "RUNNING"
          /\ ret' = SandboxVal(sandbox_id)
          /\ \A p \in PageSizes :
                sandbox_id' \in
                    Ids(list_sandbox(SessionInfos(Registry(state', timeout', sandbox_id', fleet')),
                                     SandboxQuery(EmptyMetadata, {"RUNNING"}), p))
          /\ ServerExecAnswer(state').ok
          /\ CommandsRunAnswer(state', 0, FALSE).ok]_vars

C14_Witness ==
    /\ Done("connect_sandbox")
    /\ outcome = "returned"
    /\ stAtCall = "PAUSED"
    /\ calls = 1
    /\ state = "RUNNING"
    /\ sandbox_id \in Ids(Listing(SandboxQuery(EmptyMetadata, {"RUNNING"}), 1))
    /\ sandbox_id \notin Ids(Listing(SandboxQuery(EmptyMetadata, {"PAUSED"}), 1))

\* the sessions created and not yet terminated in the registry reg
Alive(reg) == {i \in DOMAIN reg : reg[i].state \in {"RUNNING", "PAUSING", "PAUSED"}}

\* the sessions of the service as they are now
RegistryNow == Registry(state, timeout, sandbox_id, fleet)

\* session s has every key queried by q with an equal value and, when q
\* queries states, a state among them
Wanted(s, q) ==
    /\ \A k \in DOMAIN q.metadata :
          k \in DOMAIN s.metadata /\ s.metadata[k] = q.metadata[k]
    /\ q.state # {} => s.state \in q.state

\* this step is a page of a test's list_sandbox arriving; the last one
PageArrives ==
    /\ fop'.kind = "list"
    /\ \/ listed' # listed
       \/ paginator' # paginator
       \/ atQuery' # atQuery
       \/ query' # query
       \/ pageSize' # pageSize

LastPageArrives == PageArrives /\ ~paginator'.has_next

\* the positions of listed' that the arriving page has filled
Arriving == IF paginator.has_next THEN (Len(listed) + 1)..Len(listed') ELSE 1..Len(listed')

NoDuplicate(sandboxes) ==
    \A j, k \in 1..Len(sandboxes) :
        j # k => sandboxes[j].sandbox_id # sandboxes[k].sandbox_id

\* C15 as the spec states it: when list_sandbox called with no query returns,
\* it has returned each session created and not yet terminated at query time
\* exactly once, query time being read as the time of the call or as the
\* time of the return, whichever fits.
C15_Original ==
    [][(LastPageArrives /\ ~query'.given) =>
          /\ NoDuplicate(listed')
          /\ \/ Ids(listed') = Alive(atQuery')
             \/ Ids(listed') = Alive(RegistryNow')]_vars

\* C15 amended: list completeness. list_sandbox called with no query ends
\* (each further page starts behind the one before), lists no identifier
\* twice, takes with every page only sessions that are created and not
\* terminated when the page is served, each as the service has it then, and
\* has, when it returns, listed every session that was created and not yet
\* terminated at the call and still is at the return, whatever the page
\* size. When no session ends during the call that is each session of query
\* time exactly once.
C15_ListComplete ==
    /\ []((fop.kind = "list" /\ ~query.given) =>
            /\ NoDuplicate(listed)
            /\ Ids(listed) \subseteq Alive(atQuery))
    /\ [][(PageArrives /\ ~query'.given) =>
            /\ \A k \in Arriving :
                  /\ listed'[k].sandbox_id \in Alive(RegistryNow)
                  /\ listed'[k] = SandboxInfo(listed'[k].sandbox_id,
                                              RegistryNow[listed'[k].sandbox_id])
            /\ (paginator.has_next /\ paginator'.has_next) =>
                  paginator'.token > paginator.token]_vars
    /\ [][(LastPageArrives /\ ~query'.given) =>
            /\ Alive(atQuery') \cap Alive(RegistryNow') \subseteq Ids(listed')
            /\ Alive(atQuery') = Alive(RegistryNow') =>
                  /\ Ids(listed') = Alive(atQuery')
                  /\ Len(listed') = Cardinality(Alive(atQuery'))]_vars

\* a listing in pages of one that has returned: one session was listed and
\* the other was reaped before its page was served
C15_Witness ==
    /\ fop.kind = "list"
    /\ ~query.given
    /\ ~paginator.has_next
    /\ pageSize = 1
    /\ Cardinality(Alive(atQuery)) = 2
    /\ Len(listed) = 1
    /\ listed[1].sandbox_id \in Alive(RegistryNow)

\* the sessions of reg the query q asks for
WantedIn(reg, q) == {i \in Alive(reg) : Wanted(reg[i], q)}

\* the sessions of reg that carry userId 123
Carriers(reg) ==
    {i \in Alive(reg) :
        "userId" \in DOMAIN reg[i].metadata /\ reg[i].metadata["userId"] = "123"}

\* C16 as the spec states it: when list_sandbox called with a query returns,
\* it has returned exactly the non-terminated sessions whose metadata has
\* every queried key with an equal value and whose current state is among
\* the queried ones, each once, the sessions and their states being read as
\* those at the call or as those at the return, whichever fits.
C16_Original ==
    [][(LastPageArrives /\ query'.given) =>
          /\ NoDuplicate(listed')
          /\ \/ Ids(listed') = WantedIn(atQuery', query')
             \/ Ids(listed') = WantedIn(RegistryNow', query')]_vars

\* C16 amended: list filtering. list_sandbox called with a query lists no
\* session twice, takes with every page only non-terminated sessions that
\* have, when the page is served, every queried key with an equal value and a
\* state among the queried ones, and has, when it returns, listed every
\* session that the query asks for both at the call and at the return. When
\* no session ends or changes state during the call that is exactly the
\* sessions the query asks for; and a session that alone carries the queried
\* userId and lives until the return is the single element returned, the one
\* get_info answered for before the listing.
C16_ListFilterExact ==
    /\ []((fop.kind = "list" /\ query.given) => NoDuplicate(listed))
    /\ [][(PageArrives /\ query'.given) =>
            \A k \in Arriving :
                /\ listed'[k].sandbox_id \in Alive(RegistryNow)
                /\ Wanted(RegistryNow[listed'[k].sandbox_id], query')
                /\ listed'[k] = SandboxInfo(listed'[k].sandbox_id,
                                            RegistryNow[listed'[k].sandbox_id])]_vars
    /\ [][(LastPageArrives /\ query'.given) =>
            /\ WantedIn(atQuery', query') \cap WantedIn(RegistryNow', query') \subseteq Ids(listed')
            /\ atQuery' = RegistryNow' =>
                  /\ Ids(listed') = WantedIn(atQuery', query')
                  /\ Len(listed') = Cardinality(WantedIn(atQuery', query'))
            /\ (/\ query' = SandboxQuery([userId |-> "123"], {})
                /\ Cardinality(Carriers(atQuery')) = 1
                /\ Carriers(atQuery') \subseteq Alive(RegistryNow')) =>
                  /\ Len(listed') = 1
                  /\ listed'[1].sandbox_id \in Carriers(atQuery')
                  /\ info'.sandbox_id \in Carriers(atQuery') =>
                        listed'[1].sandbox_id = info'.sandbox_id]_vars

\* a listing by state in pages of one that has returned: both sessions were
\* RUNNING at the call, one was listed and the other was reaped before its
\* page was served
C16_Witness ==
    /\ fop.kind = "list"
    /\ query = SandboxQuery(EmptyMetadata, {"RUNNING"})
    /\ ~paginator.has_next
    /\ pageSize = 1
    /\ Cardinality(WantedIn(atQuery, query)) = 2
    /\ Len(listed) = 1

\* C17: timeouts are per session and replaceable. After create(timeout = t)
\* or set_timeout(t) on a session, with no later call, t is the timeout in
\* force: the session is running while fewer than t seconds have passed
\* since the call and is terminated once t seconds have passed, whatever its
\* creation timeout was. A session is reaped exactly when its own timeout
\* has elapsed, the reaping of one session changes no other session, and
\* get_info on a session that has not been reaped succeeds.
C17_TimeoutPerSession ==
    /\ [](\A i \in OtherIds : fleet[i].state = "RUNNING" => fleet[i].age <= fleet[i].limit)
    /\ []((fop.kind \in {"create", "set_timeout"} /\ fop.ok) =>
            /\ fleet[fop.id].state \in {"RUNNING", "TERMINATED"}
            /\ fleet[fop.id].state = "RUNNING" =>
                  /\ fleet[fop.id].limit = fop.timeout
                  /\ fleet[fop.id].age = sinceOp
                  /\ sinceOp <= fop.timeout
            /\ fleet[fop.id].state = "TERMINATED" => sinceOp >= fop.timeout)
    /\ []((fop.kind = "get_info" /\ sinceOp = 0 /\ fleet[fop.id].state = "RUNNING") =>
            (fop.ok /\ info.sandbox_id = fop.id /\ info.state = "RUNNING"))
    /\ [][\A j \in OtherIds :
            (fleet[j].state = "RUNNING" /\ fleet'[j].state = "TERMINATED" /\ fop' = fop) =>
                /\ fleet[j].age = fleet[j].limit
                /\ \A k \in OtherIds \ {j} : fleet'[k] = fleet[k]]_vars

\* sandbox2, created with timeout 2, was given timeout 1 and reaped one
\* second later, while the other session, one second into its timeout of 2,
\* is still running
C17_Witness ==
    /\ fop.kind = "set_timeout"
    /\ fop.ok
    /\ fop.timeout = 1
    /\ sinceOp = 1
    /\ fleet[fop.id].state = "TERMINATED"
    /\ \E j \in OtherIds \ {fop.id} :
          /\ fleet[j].state = "RUNNING"
          /\ fleet[j].limit = 2
          /\ fleet[j].age = 1

\* C18: control-plane URL resolution. Whenever the domain is configured,
\* get_api_url returns scheme://domain/kruise/api with scheme https exactly
\* when the flag is true and http otherwise, and patch_e2b stores the same
\* URL in E2B_API_URL; whatever else the environment holds (an E2B_API_URL
\* set before, the API key) and whatever was called before makes no
\* difference.
C18_ApiUrl ==
    /\ (rop.name = "get_api_url" /\ "E2B_DOMAIN" \in DOMAIN env) =>
          /\ result.ok
          /\ result.val =
                (IF rop.https THEN "https" ELSE "http") \o "://" \o env["E2B_DOMAIN"]
                    \o "/kruise/api"
          /\ (rop.https /\ env["E2B_DOMAIN"] = "localhost") =>
                result.val = "https://localhost/kruise/api"
          /\ (~rop.https /\ env["E2B_DOMAIN"] = "e2b.example.com") =>
                result.val = "http://e2b.example.com/kruise/api"
    /\ (rop.name = "patch_e2b" /\ "E2B_DOMAIN" \in DOMAIN env) =>
          /\ result.ok
          /\ "E2B_API_URL" \in DOMAIN env
          /\ env["E2B_API_URL"] =
                (IF rop.https THEN "https" ELSE "http") \o "://" \o env["E2B_DOMAIN"]
                    \o "/kruise/api"
          /\ (~rop.https /\ env["E2B_DOMAIN"] = "localhost") =>
                env["E2B_API_URL"] = "http://localhost/kruise/api"

C18_Witness ==
    /\ rop.name = "get_api_url"
    /\ ~rop.https
    /\ result.val = "http://e2b.example.com/kruise/api"
    /\ "E2B_API_URL" \in DOMAIN env
    /\ env["E2B_API_URL"] = "https://e2b.example.com/kruise/api"

\* C19 as claimed: data-plane host resolution. For every session identifier,
\* domain and port, get_host returns exactly domain/kruise/session-id/port,
\* from the Sandbox subclass of kruise_agents/e2b.py as from the functions
\* patch_e2b installs, so that the two give the same host.
C19_HostSame ==
    (rop.name = "get_host" /\ (rop.cls = "kruise_agents.e2b.Sandbox" \/ patched.get_host)) =>
        result.val = rop.domain \o "/kruise/" \o rop.id \o "/" \o ToString(rop.port)

\* C20: missing configuration is fatal and immediate. With E2B_DOMAIN not
\* configured, create, connect (of an instance or by identifier) and
\* patch_e2b raise the KeyError of the lookup: no control-plane request has
\* been sent, nothing has been patched or written to the environment, and
\* the error is not one connect_sandbox would retry at any attempt.
C20_MissingConfigFatal ==
    ("E2B_DOMAIN" \notin DOMAIN env
       /\ rop.name \in {"create", "connect", "_cls_connect", "patch_e2b"}) =>
        /\ ~result.ok
        /\ result.err.kind = "KeyError"
        /\ result.err.msg = <<"'E2B_DOMAIN'">>
        /\ wire = <<>>
        /\ patched = Unpatched
        /\ env = [E2B_API_KEY |-> "key"]
        /\ \A a \in 0..29 : ConnectOnError(result.err, a) =
                                [do |-> "raise", err |-> result.err, cause |-> NoErr]

C20_Witness ==
    /\ "E2B_DOMAIN" \notin DOMAIN env
    /\ rop.name = "create"
    /\ ~result.ok
    /\ result.err.kind = "KeyError"
    /\ wire = <<>>

\* C21 as claimed: insecure-mode signal. Every handle the Sandbox subclass
\* returns from a call made with https = False, be it create, connect on an
\* instance or connect by identifier, has connection_config.debug set, so
\* that the HTTP clients skip certificate verification.
C21_InsecureSignal ==
    (rop.name \in {"create", "connect", "_cls_connect"} /\ ~rop.https /\ result.ok) =>
        result.debug

\* C22: sleep placement. In connect_sandbox and run_code_sandbox a sleep of
\* the fixed delay (2 s, 5 s) is made only in the step in which an attempt
\* failed and the loop goes on to another attempt (on the connect path: the
\* error was the pausing one); while the call is running every invocation so
\* far failed and was followed by one sleep, and when the call ends the
\* sleeps are the invocations minus one: none before the first attempt, none
\* after a success, a terminal error or the last failed attempt.
C22_SleepPlacement ==
    /\ []((pc = "connect" \/ pc = "run") =>
            (sleeps = calls /\ sleeps = failed))
    /\ []((Done("connect_sandbox") /\ calls > 0) =>
            (sleeps = calls - 1 /\ slept = 2 * sleeps /\ calls <= 30))
    /\ []((Done("run_code_sandbox") /\ calls > 0) =>
            (sleeps = calls - 1 /\ slept = 5 * sleeps /\ calls <= 5))
    /\ [][(sleeps' # sleeps /\ op' = op /\ pc # "idle") =>
            /\ sleeps' = sleeps + 1
            /\ pc' = pc
            /\ outcome' = "none"
            /\ calls' = calls + 1
            /\ failed' = failed + 1
            /\ slept' = slept + (IF pc = "connect" THEN 2 ELSE 5)
            /\ (pc = "connect" => (HasPausingText(lastErr') /\ calls' < 30))
            /\ (pc = "run" => calls' < 5)]_vars
    /\ [][(pc # "idle" /\ pc' = "idle") => (sleeps' = sleeps /\ slept' = slept)]_vars

C22_Witness ==
    /\ Done("connect_sandbox")
    /\ outcome = "returned"
    /\ calls = 3
    /\ sleeps = 2
    /\ slept = 4

\* C23: success short-circuits the retry loop. The first attempt of
\* connect_sandbox / run_code_sandbox that does not raise ends the call in
\* that step: the helper returns that attempt's value (the connected session,
\* the execution with its output), the invocations are the failed attempts
\* plus this one and at most the maximum, and no error of an earlier attempt
\* reaches the caller.
C23_SuccessShortCircuits ==
    /\ [][((pc = "connect" \/ pc = "run") /\ calls' = calls + 1 /\ failed' = failed) =>
            /\ pc' = "idle"
            /\ outcome' = "returned"
            /\ calls' = failed + 1
            /\ err' = NoErr
            /\ cause' = NoErr
            /\ sleeps' = sleeps
            /\ (pc = "connect" =>
                  (ret'.tag = "Sandbox" /\ ret'.id = sandbox_id /\ calls' <= 30))
            /\ (pc = "run" =>
                  (/\ ret'.tag = "Execution"
                   /\ ret'.stdout = [i \in 1..code |-> i]
                   /\ calls' <= 5))]_vars
    /\ []((pc = "idle" /\ op \in {"connect_sandbox", "run_code_sandbox"}
             /\ outcome = "returned") =>
            (calls = failed + 1 /\ err = NoErr /\ cause = NoErr /\ ret # NoVal))

C23_Witness ==
    /\ Done("run_code_sandbox")
    /\ outcome = "returned"
    /\ failed = 2
    /\ calls = 3
    /\ lastErr = TimeoutErr
    /\ err = NoErr
    /\ ret.stdout = <<1, 2>>

\* C24: last error surfaced. When connect_sandbox or run_code_sandbox ends
\* raising, every attempt of the call has failed and the error the caller
\* gets is the error of the final attempt, or the exhaustion error carrying
\* it as its direct cause; when the attempt before raised a different error,
\* that one is neither the error nor the cause.
C24_LastErrorSurfaced ==
    /\ [][((pc = "connect" \/ pc = "run") /\ pc' = "idle" /\ outcome' = "raised") =>
            /\ failed' = calls'
            /\ failed' = failed + 1
            /\ \/ (err' = lastErr' /\ cause' = NoErr)
               \/ (/\ pc = "connect"
                   /\ err'.msg = <<"Sandbox still pausing after", "30", "retries">>
                   /\ cause' = lastErr')
            /\ (failed > 0 /\ lastErr # lastErr') =>
                  (err' # lastErr /\ cause' # lastErr)]_vars
    /\ []((pc = "idle" /\ op \in {"connect_sandbox", "run_code_sandbox"}
             /\ outcome = "raised") =>
            (lastErr # NoErr /\ (err = lastErr \/ cause = lastErr)))

C24_Witness ==
    /\ Done("run_code_sandbox")
    /\ outcome = "raised"
    /\ failed = 5
    /\ pausingSeen = 2
    /\ err = PartialTextErr
    /\ lastErr = PartialTextErr

\* the message of e names the number n
MentionsCount(e, n) == \E i \in 1..Len(e.msg) : e.msg[i] = ToString(n)

\* C25 as claimed: attempt-count annotation. When connect_sandbox has retried
\* at least once on pausing errors and then gets a non-pausing error, the
\* error that reaches the caller has the kind sbx.connect raised and carries
\* the number of attempts made.
C25_Original ==
    (Done("connect_sandbox") /\ outcome = "raised" /\ pausingSeen >= 1
       /\ ~HasPausingText(lastErr)) =>
        /\ err.kind = lastErr.kind
        /\ (MentionsCount(err, calls) \/ MentionsCount(cause, calls))

\* C25 amended: when connect_sandbox has retried at least once on pausing
\* errors and then gets a non-pausing error, the caller gets that very
\* error, same kind and same message, with no cause and no attempt count
\* added to it; the invocations made are the pausing ones plus this one.
C25_TerminalAfterRetries ==
    (Done("connect_sandbox") /\ outcome = "raised" /\ pausingSeen >= 1
       /\ ~HasPausingText(lastErr)) =>
        /\ err = lastErr
        /\ err.kind = lastErr.kind
        /\ err.msg = lastErr.msg
        /\ cause = NoErr
        /\ ~MentionsCount(err, calls)
        /\ calls = pausingSeen + 1

C25_Witness ==
    /\ Done("connect_sandbox")
    /\ outcome = "raised"
    /\ pausingSeen = 1
    /\ calls = 2
    /\ err = PartialTextErr

\* C26: an execution error returned as a value is not retried. When
\* sbx.run_code reaches a running session with a program that fails (the
\* attempt is not lost in transport), it returns an execution whose error
\* descriptor is set and raises nothing, and
\* run_code_sandbox returns that execution in the same step, without a sleep
\* or another invocation (one invocation in all when no attempt raised
\* before), and raises nothing; a returned execution carries the error
\* descriptor exactly when the program failed, so it is either the
\* successful result or the error, never both and never neither.
C26_ErrorValueNotRetried ==
    /\ [][(/\ pc = "run" /\ state = "RUNNING" /\ code = -1 /\ calls' = calls + 1
            /\ ~(failed' = failed + 1 /\ lastErr' \in TransportFaults)) =>
            /\ pc' = "idle"
            /\ outcome' = "returned"
            /\ ret'.tag = "Execution"
            /\ ret'.error = <<"NameError", "name 'x' is not defined">>
            /\ err' = NoErr
            /\ sleeps' = sleeps
            /\ calls' = failed + 1
            /\ (attempt = 0 => calls' = 1)]_vars
    /\ []((Done("run_code_sandbox") /\ outcome = "returned") =>
            /\ ret.tag = "Execution"
            /\ (ret.error # <<>>) <=> (code = -1)
            /\ (ret.error # <<>>) => ret.stdout = <<>>
            /\ (failed = 0 => (calls = 1 /\ sleeps = 0 /\ slept = 0)))

C26_Witness ==
    /\ Done("run_code_sandbox")
    /\ outcome = "returned"
    /\ ret.error # <<>>
    /\ calls = 1
    /\ sleeps = 0
    /\ err = NoErr

\* C27: PAUSING is closed to the client. Every sbx.connect, sbx.run_code and
\* commands.run invoked while the session is PAUSING fails with the error
\* that carries the pausing text and leaves the session PAUSING under the
\* same identifier; the session leaves PAUSING for PAUSED only by the
\* server's own step, in which no client call takes part (the one other way
\* out is a kill, to TERMINATED).
C27_PausingClosed ==
    /\ [][(state = "PAUSING" /\ pc \in {"connect", "run", "shell"}
             /\ calls' = calls + 1) =>
            /\ failed' = failed + 1
            /\ lastErr' = PausingErr
            /\ HasPausingText(lastErr')
            /\ outcome' # "returned"
            /\ state' = "PAUSING"
            /\ sandbox_id' = sandbox_id]_vars
    /\ [][(state = "PAUSING" /\ state' # "PAUSING") =>
            \/ (/\ state' = "PAUSED"
                /\ calls' = calls /\ op' = op /\ pc' = pc /\ outcome' = outcome
                /\ sandbox_id' = sandbox_id)
            \/ (state' = "TERMINATED" /\ op' = "kill")]_vars
    /\ [][(state # "PAUSED" /\ state' = "PAUSED") => state = "PAUSING"]_vars

C27_Witness ==
    /\ state = "PAUSING"
    /\ pc = "run"
    /\ stAtCall = "PAUSING"
    /\ calls = 2
    /\ pausingSeen = 2
    /\ lastErr = PausingErr

\* C28: kill terminates a session from every live state. A kill issued while
\* the session is RUNNING, PAUSING or PAUSED returns without an error and
\* leaves it TERMINATED; from then on it stays TERMINATED and no page of a
\* listing served afterwards holds its identifier. wait_for_sandbox returns
\* only from a poll whose complete listing is empty, made while less than 30 s
\* had passed at its loop condition; it goes to sleep for another round only
\* after such a poll whose complete listing is not empty; and it raises
\* only once 30 s have passed. A poll made in the loop while the session is
\* TERMINATED and no session of another test is alive sees an empty list,
\* and wait_for_sandbox returns from it; and a wait_for_sandbox running
\* while the session is TERMINATED eventually ends: it returns, or it raises
\* because the session of another test outlived its 30 s.
C28_KillFromAnyState ==
    /\ []((pc = "idle" /\ op = "kill" /\ stAtCall \in {"RUNNING", "PAUSING", "PAUSED"}) =>
            /\ outcome = "returned"
            /\ err = NoErr
            /\ state = "TERMINATED")
    /\ [][state = "TERMINATED" =>
            /\ state' = "TERMINATED"
            /\ listed' # listed =>
                  \A k \in 1..Len(listed') :
                      listed'[k].sandbox_id = sandbox_id =>
                          (k <= Len(listed) /\ listed[k] = listed'[k]
                             /\ paginator.has_next)]_vars
    /\ [][(wait' # wait /\ wait'.pc = "returned") =>
            /\ listed' = <<>>
            /\ ~paginator'.has_next
            /\ wait.pc = "head" => wait.elapsed < wait_timeout]_vars
    /\ [][(wait' # wait /\ wait'.pc = "head" /\ wait'.left = wait_interval) =>
            /\ listed' # <<>>
            /\ ~paginator'.has_next
            /\ wait.pc = "head" => wait.elapsed < wait_timeout]_vars
    /\ [](wait.pc = "listing" => wait.elapsed < wait_timeout + Len(listed) + 1)
    /\ [](wait.pc \in {"remaining", "raised"} => wait.elapsed >= wait_timeout)
    /\ [][(/\ wait' # wait
            /\ wait'.pc # "none"
            /\ \/ wait.pc \in {"none", "returned", "raised"}
               \/ wait.pc = "head" /\ wait.left = 0 /\ wait.elapsed < wait_timeout
            /\ state = "TERMINATED"
            /\ \A i \in OtherIds : fleet[i].state # "RUNNING") =>
            /\ wait'.pc = "returned"
            /\ listed' = <<>>]_vars
    /\ (state = "TERMINATED" /\ wait.pc \in {"listing", "head", "remaining"})
          ~> (wait.pc \in {"returned", "raised"})

\* a kill of a PAUSING session was accepted, and the wait that followed
\* returned from a poll made after it had slept, the session test_lifecycle
\* left behind having been reaped meanwhile
C28_Witness ==
    /\ pc = "idle"
    /\ op = "kill"
    /\ stAtCall = "PAUSING"
    /\ outcome = "returned"
    /\ state = "TERMINATED"
    /\ wait.pc = "returned"
    /\ wait.elapsed >= wait_interval

\* C29: connect is idempotent on a RUNNING session. An sbx.connect that
\* reaches a RUNNING session succeeds in that step: connect_sandbox returns
\* the session after this one invocation, and the session is RUNNING under
\* the same identifier as before; its timeout is the one passed, if any.  A
\* connect repeated with the same argument therefore leaves state,
\* identifier and timeout exactly as the first one left them.
C29_ConnectIdempotent ==
    [][(pc = "connect" /\ state = "RUNNING" /\ calls' = calls + 1) =>
         /\ pc' = "idle"
         /\ outcome' = "returned"
         /\ err' = NoErr
         /\ ret'.tag = "Sandbox"
         /\ ret'.id = sandbox_id
         /\ state' = "RUNNING"
         /\ sandbox_id' = sandbox_id
         /\ timeout' = (IF timeoutArg = 0 THEN timeout ELSE timeoutArg)
         /\ (timeoutArg \in {0, timeout} =>
               <<state', sandbox_id', timeout'>> = <<state, sandbox_id, timeout>>)]_vars

C29_Witness ==
    /\ Done("connect_sandbox")
    /\ stAtCall = "RUNNING"
    /\ outcome = "returned"
    /\ calls = 1
    /\ state = "RUNNING"
    /\ timeoutArg = 2
    /\ timeout = 2
    /\ ret = SandboxVal(sandbox_id)

\* the segments of one stream among those the loop has been given, in the
\* order the process wrote them
Arrived(stream) ==
    LET sel == SelectSeq(SubSeq(emitted, 1, consumed), LAMBDA x : x.stream = stream)
    IN  [k \in 1..Len(sel) |-> sel[k].n]

\* C30: background command handle. A background run returns its handle when
\* the process has been started, not when it has exited: nothing has been
\* written or yielded yet.  Iterating the handle yields the segments in the
\* order the process wrote them, none skipped or repeated, and the loop ends
\* by itself only when the process is gone and every segment was yielded
\* (all of the command's output when it exited by itself).  kill on the
\* handle never raises, whether the process is running, has exited or was
\* killed before, and leaves no process running.
C30_BackgroundHandle ==
    /\ [][(procSt # "running" /\ procSt' # procSt) =>
            /\ procSt' = "running"
            /\ bop' = BgOp("run", FALSE, "CommandHandle", procSt)
            /\ emitted' = <<>>
            /\ consumed' = 0
            /\ iter' = "none"]_vars
    /\ [](/\ consumed <= Len(emitted)
          /\ Len(emitted) <= total
          /\ stdout_output = Arrived("stdout")
          /\ stderr_output = Arrived("stderr")
          /\ Len(stdout_output) + Len(stderr_output) = consumed
          /\ \A k \in 1..Len(emitted) : emitted[k].n = k)
    /\ [][(iter # "done" /\ iter' = "done" /\ bop'.name = "iter_end") =>
            /\ procSt \in {"exited", "killed"}
            /\ consumed' = Len(emitted')
            /\ ~bop'.raised
            /\ (procSt = "exited" => consumed' = total)]_vars
    /\ [](bop.name = "kill" =>
            /\ ~bop.raised
            /\ bop.at \in {"running", "exited", "killed"}
            /\ procSt \in {"exited", "killed"}
            /\ (bop.ret = "True") <=> (bop.at = "running"))

C30_Witness ==
    /\ bop.name = "kill"
    /\ bop.at = "exited"
    /\ ~bop.raised
    /\ iter = "done"
    /\ stdout_output = <<1, 2>>
    /\ stderr_output = <<>>

\* C31: two retry loops running at the same time on different sessions do not
\* influence each other. Whatever the interleaving, a loop that has ended
\* made as many invocations, slept as long and ended with the same result or
\* error as the same loop run alone against the same session; a loop that
\* has not ended has made no more invocations than it makes alone; and
\* a loop that is at its next attempt can take it whatever the other loop is
\* doing, in particular while the other loop sleeps between two attempts.
C31_LoopsIndependent ==
    \A i \in Loops :
        LET alone == Alone(i)
        IN  /\ lcalls[i] <= alone.calls
            /\ lpc[i] = "done" =>
                  /\ lcalls[i] = alone.calls
                  /\ lslept[i] = alone.slept
                  /\ lout[i] = alone.out
            /\ lpc[i] = "attempt" => ENABLED LoopAttempt(i)
            /\ lpc[i] = "sleeping" => ENABLED LoopSleep(i)

\* a connect_sandbox loop ended after retrying while a run_code_sandbox loop
\* on another session, which had slept in between, exhausted its attempts
C31_Witness ==
    /\ helper[1] = "connect_sandbox" /\ helper[2] = "run_code_sandbox"
    /\ lpc[1] = "done" /\ lpc[2] = "done"
    /\ lcalls[1] = 3 /\ lout[1].outcome = "returned" /\ lout[1].ret = SandboxVal(1)
    /\ lcalls[2] = 5 /\ lslept[2] = 20 /\ lout[2].outcome = "raised"
    /\ lout[2].err = NotRunningErr

\* C32 as claimed: the process-wide endpoint configuration stays consistent.
\* After any sequence of patch_e2b calls, the last of which succeeded with
\* argument https, the control-plane URL in E2B_API_URL and the data-plane
\* URLs (the sandbox URL and the Jupyter URL of any session, for a handle that
\* is not in debug mode) all carry the scheme of that last call: https when
\* https is true, http otherwise.
C32_SchemeFollowsLastPatch ==
    (rop.name = "patch_e2b" /\ result.ok) =>
        LET scheme == IF rop.https THEN "https" ELSE "http"
        IN  /\ env["E2B_API_URL"] = scheme \o "://" \o env["E2B_DOMAIN"] \o "/kruise/api"
            /\ \A d \in Domains, id \in SandboxIds :
                  /\ get_sandbox_url(patched, FALSE, ToString(id), d)
                       = scheme \o "://" \o d \o "/kruise/" \o ToString(id) \o "/49983"
                  /\ jupyter_url(patched, FALSE, d, ToString(id))
                       = scheme \o "://" \o d \o "/kruise/" \o ToString(id) \o "/49999"

\* C33 as claimed: cleanup of a context with a non-empty registry invokes
\* kill exactly once on every registered sandbox, whatever the form of its
\* identifier and whether or not the kill or the log collection of an earlier
\* sandbox raised; no exception escapes the call and the registry is empty
\* afterwards.
C33_CleanupKillsAll ==
    (cop.name = "cleanup" /\ cop.registry # <<>>) =>
        /\ \A k \in 1..Len(cop.registry) :
              Cardinality({j \in DOMAIN kill_calls : kill_calls[j] = cop.registry[k].n}) = 1
        /\ ~cop.escaped
        /\ ctx_sandboxes = <<>>

=============================================================================
